---- MODULE Spec2Model ----
(***************************************************************************)
(* Model of the Igris terminal agent's two engineered subsystems:          *)
(*   - the ingestion workflow of ingest_workflow.py (a LangGraph state     *)
(*     graph of seven nodes with conditional routing on the error slot),   *)
(*   - the memory persistence of memory.py (backup copy, temporary file,   *)
(*     fsync, os.replace; load with fallback to the .bak file).            *)
(* Spec is the ingestion workflow, SpecMemory the memory store.            *)
(***************************************************************************)
EXTENDS Integers, Sequences, FiniteSets, TLC

VARIABLES
    \* ---- ingestion workflow ----
    pc,          \* position of run_ingestion_workflow: a node name, END, ...
    req,         \* the arguments of the current call
    st,          \* the IngestState threaded through the graph
    trace,       \* the nodes executed by the current call, in order
    index,       \* what is at memory_file on disk (the FAISS directory)
    store,       \* what is at docs_file on disk (the pickled chunk list)
    tempDirs,    \* the igris_ingest_* directories existing on disk
    bucketObjs,  \* the objects uploaded so far, as <<bucket, key>>
    uploadCalls, \* calls of s3.upload_file made by the current call
    nReq,        \* calls of run_ingestion_workflow started so far
    pre,         \* index, store and tempDirs as they were when the call began
    result,      \* what the last call returned to its caller
    cleanupLog,  \* what node_cleanup did in the current call
    procs,       \* two processes inside node_build_index on the same paths
    \* ---- memory store ----
    mpc,         \* position inside save_memory / _atomic_write / the chat loop
    hist,        \* memory.chat_memory.messages of the running process
    primary,     \* the file at filepath
    bak,         \* the file at filepath + ".bak"
    tmp,         \* the temporary file of the save in progress
    staleTmps,   \* temporary files left in the directory by killed processes
    saveLog,     \* the save in progress or last made: primary and bak as
                 \* they were when it began, and what has happened to it
    saveData,    \* the snapshot the save in progress is writing
    loaded,      \* what the last load_memory returned and printed
    lastSave,    \* how the last save_memory ended
    msgCtr,      \* identifiers handed out to messages so far
    nCrash,      \* process kills so far
    \* ---- agent graph and chat loop ----
    apc,         \* position of run_agent_turn and of the graph it invokes
    history,     \* the history handed to run_agent_turn
    messages,    \* the messages key of the graph's state
    iters,       \* executions of the tools node in the current turn
    sc,          \* the call of system_control in progress or last made
    launched,    \* the commands given to subprocess.Popen in the current turn
    turn,        \* what run_agent_turn returned
    os_name,     \* platform.system()
    turnLog      \* the chat loop's current or last turn: how it ended and the
                 \* history and files as they were when it began

ingestVars == <<pc, req, st, trace, index, store, tempDirs, bucketObjs,
                uploadCalls, nReq, pre, result, cleanupLog, procs>>
memVars == <<mpc, hist, primary, bak, tmp, staleTmps, saveLog, saveData,
             loaded, lastSave, msgCtr, nCrash>>
agentVars == <<apc, history, messages, iters, sc, launched, turn, os_name>>
chatVars == <<agentVars, turnLog>>
vars == <<ingestVars, memVars, chatVars>>

(***************************************************************************)
(* Bounds of the model.                                                    *)
(***************************************************************************)
MaxRequests == 2
MaxTurns == 2
MaxCrashes == 1
MaxToolIterations == 2

(***************************************************************************)
(* INGESTION WORKFLOW (ingest_workflow.py)                                 *)
(***************************************************************************)
END == "__end__"

SUPPORTED_EXTENSIONS ==
    {".txt", ".md", ".csv", ".json", ".log", ".py", ".html", ".pdf", ".docx"}

(* The input tree the requests read.  A file has a suffix, a read outcome  *)
(* (raises: its decoder fails or is not installed) and its text, given as  *)
(* the lengths of its non-blank pieces between "\n\n" separators; a file   *)
(* whose text is only whitespace has no piece.                             *)
FileTable ==
    ( "a.txt"     :> [suffix |-> ".txt", raises |-> FALSE, pieces |-> <<500, 500>>] ) @@
    ( "b.md"      :> [suffix |-> ".md",  raises |-> FALSE, pieces |-> <<300>>] ) @@
    ( "blank.txt" :> [suffix |-> ".txt", raises |-> FALSE, pieces |-> <<>>] ) @@
    ( "bad.pdf"   :> [suffix |-> ".pdf", raises |-> TRUE,  pieces |-> <<>>] ) @@
    ( "c.xyz"     :> [suffix |-> ".xyz", raises |-> FALSE, pieces |-> <<100>>] ) @@
    ( "long.txt"  :> [suffix |-> ".txt", raises |-> FALSE, pieces |-> <<2600>>] ) @@
    ( "paras.txt" :> [suffix |-> ".txt", raises |-> FALSE,
                      pieces |-> <<648, 648, 648, 650>>] ) @@
    ( "notes.txt" :> [suffix |-> ".txt", raises |-> FALSE,
                      pieces |-> <<300, 100, 500, 100, 400>>] )

DirTable ==
    ( "docs"  :> {"a.txt", "b.md", "c.xyz"} ) @@
    ( "junk"  :> {"c.xyz", "blank.txt"} ) @@
    ( "other" :> {"c.xyz"} ) @@
    ( "mixed" :> {"a.txt", "bad.pdf"} )

Files == DOMAIN FileTable
Dirs == DOMAIN DirTable
InputPaths ==
    {"nopath", "a.txt", "b.md", "blank.txt", "bad.pdf", "c.xyz"} \cup Dirs
\* Inputs that differ in how their text is laid out in paragraphs.
ChunkInputs == {"long.txt", "paras.txt", "notes.txt", "a.txt", "docs"}

Buckets == {"None", "", "bkt"}
\* A key prefix is a sequence of path segments and "/" characters; "igris" is
\* the default of run_ingestion_workflow.
Prefixes == {<<"igris">>}
WidePrefixes ==
    { <<"igris">>, <<"igris", "/">>, <<"igris", "/", "/">>, <<"a", "/", "b">>, <<>> }

Exists(p) == p \in Files \cup Dirs
IsFile(p) == p \in Files

Perms(S) ==
    { f \in [1..Cardinality(S) -> S] : \A i, j \in DOMAIN f : i # j => f[i] # f[j] }

\* The orders in which path.rglob("*") may yield the entries of p.
Listings(p) == IF p \in Dirs THEN Perms(DirTable[p]) ELSE {<<>>}

NoError == [kind |-> "none", detail |-> ""]
Err(k, d) == [kind |-> k, detail |-> d]

\* The values of the cloud_uri key: not set, None, or "s3://{bucket}/{key}".
UriUnset == <<"unset">>
UriNone == <<"None">>
S3Uri(bucket, key) == <<"s3://", bucket, "/">> \o key

\* The state app.invoke starts from: the five request keys only.
InitialState(r) ==
    [ error |-> NoError, raw_documents |-> <<>>, chunks |-> <<>>,
      vector_store |-> FALSE, artifact_path |-> 0, temp_dir |-> 0,
      cloud_uri |-> UriUnset ]

NoReq == [input_path |-> "nopath", bucket_name |-> "None", cloud_prefix |-> <<"igris">>]
NoResult == [kind |-> "none", state |-> InitialState(NoReq)]

Disk == [index |-> index, store |-> store, tempDirs |-> tempDirs]

\* _iter_paths: a file is taken as it is; of a directory, the listed files
\* whose suffix is supported, in the order rglob yields them.
_iter_paths(p, listing) ==
    IF IsFile(p) THEN <<p>>
    ELSE SelectSeq(listing, LAMBDA f : FileTable[f].suffix \in SUPPORTED_EXTENSIONS)

\* A validation that accepts every path.
node_validate_input_accepting(s, r) == s

node_validate_input(s, r) ==
    IF ~Exists(r.input_path)
    THEN [s EXCEPT !.error = Err("not_found", r.input_path)]
    ELSE s

\* A loop that passes over a file it cannot read.
OnReadFailureSkipping(s, f, rest) == rest

\* The except branch of the loop: the node returns at once with an error
\* naming the file; `rest` (the remainder of the loop) is not run.
OnReadFailure(s, f, rest) == [s EXCEPT !.error = Err("read_failed", f)]

\* A loop end that returns the documents without looking at their number.
LoadResultUnchecked(s, p, docs) == [s EXCEPT !.raw_documents = docs]

\* After the loop: no document at all is an error, otherwise the documents
\* are returned.
LoadResult(s, p, docs) ==
    IF docs = <<>>
    THEN [s EXCEPT !.error = Err("no_documents", p)]
    ELSE [s EXCEPT !.raw_documents = docs]

\* The loop of node_load_documents over files[i..], docs read so far.
RECURSIVE LoadLoop(_, _, _, _, _)
LoadLoop(s, p, files, i, docs) ==
    IF i > Len(files)
    THEN LoadResult(s, p, docs)
    ELSE LET f == files[i]
             rest == IF ~FileTable[f].raises /\ FileTable[f].pieces # <<>>
                     THEN LoadLoop(s, p, files, i + 1,
                                   Append(docs, [source |-> f,
                                                 pieces |-> FileTable[f].pieces]))
                     ELSE LoadLoop(s, p, files, i + 1, docs)
         IN  IF FileTable[f].raises
             THEN OnReadFailure(s, f, rest)
             ELSE rest

node_load_documents(s, r, listing) ==
    LoadLoop(s, r.input_path, _iter_paths(r.input_path, listing), 1, <<>>)

(* CharacterTextSplitter(chunk_size=800, chunk_overlap=120), separator     *)
(* "\n\n": the text is cut at the separator and the pieces are merged      *)
(* greedily; a chunk is the run lo..hi of pieces of its document.          *)
ChunkSize == 800
ChunkOverlap == 120
SeparatorLen == 2

SepIf(b) == IF b THEN SeparatorLen ELSE 0

\* The inner while loop of the merge: drop leading pieces of current_doc
\* (pieces lo..i-1, of joined length total) before a piece of length len.
RECURSIVE DropHead(_, _, _, _, _)
DropHead(pieces, lo, i, total, len) ==
    IF total > ChunkOverlap
       \/ (total + len + SepIf(i - lo > 0) > ChunkSize /\ total > 0)
    THEN DropHead(pieces, lo + 1, i,
                  total - (pieces[lo] + SepIf(i - lo > 1)), len)
    ELSE <<lo, total>>

RECURSIVE MergeSplits(_, _, _, _, _)
MergeSplits(pieces, i, lo, total, docs) ==
    IF i > Len(pieces)
    THEN IF i > lo THEN Append(docs, <<lo, i - 1>>) ELSE docs
    ELSE LET len   == pieces[i]
             flush == total + len + SepIf(i - lo > 0) > ChunkSize /\ i > lo
             docs1 == IF flush THEN Append(docs, <<lo, i - 1>>) ELSE docs
             dh    == IF flush THEN DropHead(pieces, lo, i, total, len)
                               ELSE <<lo, total>>
         IN  MergeSplits(pieces, i + 1, dh[1],
                         dh[2] + len + SepIf(i + 1 - dh[1] > 1), docs1)

SplitText(pieces) == MergeSplits(pieces, 1, 1, 0, <<>>)

ChunksOf(doc) ==
    LET runs == SplitText(doc.pieces)
    IN  [k \in 1..Len(runs) |->
            [source |-> doc.source, lo |-> runs[k][1], hi |-> runs[k][2]]]

\* A split that takes the documents from the last to the first.
RECURSIVE SplitDocumentsReversed(_)
SplitDocumentsReversed(docs) ==
    IF docs = <<>> THEN <<>>
    ELSE SplitDocumentsReversed(Tail(docs)) \o ChunksOf(Head(docs))

RECURSIVE SplitDocuments(_)
SplitDocuments(docs) ==
    IF docs = <<>> THEN <<>>
    ELSE ChunksOf(Head(docs)) \o SplitDocuments(Tail(docs))

node_chunk_documents(s) == [s EXCEPT !.chunks = SplitDocuments(s.raw_documents)]

(* node_build_index, first half (lines 121-140): open the index at         *)
(* memory_file and add the chunks, or build a new one; then save_local.    *)
IndexExists(idx) == idx.kind # "absent"
IndexLoads(idx) == idx.kind = "dir"

\* A build that always starts a new index from the chunks of the call.
VectorStoreFresh(idx, chunks) == chunks

VectorStoreFor(idx, chunks) ==
    IF IndexExists(idx) /\ IndexLoads(idx)
    THEN idx.chunks \o chunks
    ELSE chunks

\* A build that gives up when the index at the path does not open.
BuildIndexRaisesUnopenable(idx, chunks) ==
    \/ (IndexExists(idx) /\ ~IndexLoads(idx))
    \/ chunks = <<>>

\* FAISS.from_documents has no first embedding to size the index with when
\* the list is empty; save_local's mkdir fails on a path that is a file.
BuildIndexRaises(idx, chunks) ==
    \/ (~(IndexExists(idx) /\ IndexLoads(idx)) /\ chunks = <<>>)
    \/ idx.kind = "file"

(* node_build_index, second half (lines 142-152): read the chunk list at   *)
(* docs_file (a corrupt one counts as empty), write it back extended.      *)
StoreExists(sto) == sto.kind # "absent"
StoreLoads(sto) == sto.kind = "file"

\* A read of docs_file that takes whatever the file held.
ExistingDocsUnchecked(sto) == sto.chunks

ExistingDocs(sto) ==
    IF StoreExists(sto) /\ StoreLoads(sto) THEN sto.chunks ELSE <<>>

\* A store write that brings the store in line with the index.
StoreRepairing(sto, chunks) == [kind |-> "file", chunks |-> index.chunks]

\* A store write that leaves out the chunks the store already holds.
StoreDeduplicating(sto, chunks) ==
    [kind |-> "file",
     chunks |-> ExistingDocs(sto) \o
                SelectSeq(chunks, LAMBDA c :
                    \A i \in 1..Len(ExistingDocs(sto)) : ExistingDocs(sto)[i] # c)]

\* A store write that keeps only the chunks of the call.
StoreReplacing(sto, chunks) == [kind |-> "file", chunks |-> chunks]

StoreAfter(sto, chunks) ==
    [kind |-> "file", chunks |-> ExistingDocs(sto) \o chunks]

\* A routing function that does not look at the error slot.
_route_ignoring_error(s, ok_target) == ok_target

_route_on_error(s, ok_target) ==
    IF s.error # NoError THEN END ELSE ok_target

_route_after_validate(s) == _route_on_error(s, "load_documents")
\* An edge from load_documents that passes over chunk_documents.
_route_after_load_skipping(s) ==
    IF s.error # NoError THEN END ELSE "build_index"

_route_after_load(s) == _route_on_error(s, "chunk_documents")
_route_after_chunk(s) == _route_on_error(s, "build_index")
_route_after_build(s) == _route_on_error(s, "prepare_artifact")
_route_after_prepare(s) == _route_on_error(s, "upload_to_s3")
\* An edge from upload_to_s3 that runs the node again after an error.
_route_after_upload_retrying(s) ==
    IF s.error # NoError THEN "upload_to_s3" ELSE "cleanup"

\* An edge from upload_to_s3 that goes to cleanup whatever the outcome.
_route_after_upload_cleaning(s) == "cleanup"

_route_after_upload(s) == _route_on_error(s, "cleanup")

ArchiveName == "igris_artifacts.zip"

\* key_prefix.rstrip('/')
RECURSIVE RStripSlash(_)
RStripSlash(prefix) ==
    IF prefix # <<>> /\ prefix[Len(prefix)] = "/"
    THEN RStripSlash(SubSeq(prefix, 1, Len(prefix) - 1))
    ELSE prefix

\* A key that joins the prefix as given.
KeyUnstripped(prefix) == prefix \o <<"/", ArchiveName>>

\* key = f"{key_prefix.rstrip('/')}/igris_artifacts.zip"
Key(prefix) == RStripSlash(prefix) \o <<"/", ArchiveName>>

(***************************************************************************)
(* The actions of one call of run_ingestion_workflow: app.invoke runs the  *)
(* entry node, then after each node the node its conditional edge names.   *)
(***************************************************************************)
\* Two processes that call run_ingestion_workflow with the same memory_file
\* and docs_file.  Of each: where it is in node_build_index, the file it
\* ingests, the index content it found, the vector store it holds in
\* memory and the chunk list it read from docs_file.
Procs == {"A", "B"}
NoProc == [pc |-> "idle", input |-> "nopath", seen |-> <<>>, vs |-> <<>>, docs |-> <<>>]
ProcsAtRest == [p \in Procs |-> NoProc]

IngestInit ==
    /\ pc = "idle"
    /\ req = NoReq
    /\ st = InitialState(NoReq)
    /\ trace = <<>>
    /\ index \in { [kind |-> "absent", chunks |-> <<>>],
                   [kind |-> "file", chunks |-> <<>>] }
    /\ store = [kind |-> "absent", chunks |-> <<>>]
    /\ tempDirs = {}
    /\ bucketObjs = {}
    /\ uploadCalls = 0
    /\ nReq = 0
    /\ pre = [index |-> index, store |-> store, tempDirs |-> tempDirs]
    /\ result = NoResult
    /\ cleanupLog = "none"
    /\ procs = ProcsAtRest

\* run_ingestion_workflow is called: the graph is built and invoked, the
\* entry point is validate_input.
StartRequestFrom(paths, buckets, prefixes) ==
    /\ pc \in {"idle", "returned", "raised", "killed"}
    /\ nReq < MaxRequests
    /\ \E p \in paths, b \in buckets, cp \in prefixes :
          req' = [input_path |-> p, bucket_name |-> b, cloud_prefix |-> cp]
    /\ st' = InitialState(req')
    /\ trace' = <<>>
    /\ pre' = Disk
    /\ uploadCalls' = 0
    /\ result' = NoResult
    /\ cleanupLog' = "none"
    /\ nReq' = nReq + 1
    /\ pc' = "validate_input"
    /\ UNCHANGED <<memVars, chatVars, procs, index, store, tempDirs, bucketObjs>>

StartRequest == StartRequestFrom(InputPaths, Buckets, Prefixes)

\* Calls that differ in the text they ingest only.
StartChunkRequest == StartRequestFrom(ChunkInputs, {"None"}, Prefixes)

\* Calls on readable files, without a bucket.
StartCrashRequest == StartRequestFrom({"a.txt", "b.md"}, {"None"}, Prefixes)

\* Calls that differ in the key prefix only.
StartPublishRequest == StartRequestFrom({"a.txt"}, {"bkt"}, WidePrefixes)

ValidateInput ==
    /\ pc = "validate_input"
    /\ st' = node_validate_input(st, req)
    /\ trace' = Append(trace, "validate_input")
    /\ pc' = _route_after_validate(st')
    /\ UNCHANGED <<memVars, chatVars, procs, cleanupLog, req, index, store, tempDirs, bucketObjs, uploadCalls, nReq,
                   pre, result>>

LoadDocuments ==
    /\ pc = "load_documents"
    /\ \E listing \in Listings(req.input_path) :
          st' = node_load_documents(st, req, listing)
    /\ trace' = Append(trace, "load_documents")
    /\ pc' = _route_after_load(st')
    /\ UNCHANGED <<memVars, chatVars, procs, cleanupLog, req, index, store, tempDirs, bucketObjs, uploadCalls, nReq,
                   pre, result>>

ChunkDocuments ==
    /\ pc = "chunk_documents"
    /\ st' = node_chunk_documents(st)
    /\ trace' = Append(trace, "chunk_documents")
    /\ pc' = _route_after_chunk(st')
    /\ UNCHANGED <<memVars, chatVars, procs, cleanupLog, req, index, store, tempDirs, bucketObjs, uploadCalls, nReq,
                   pre, result>>

\* node_build_index up to vector_store.save_local(memory_file).  An
\* exception here is caught by nothing: it leaves app.invoke and the call.
BuildIndexSave ==
    /\ pc = "build_index"
    /\ trace' = Append(trace, "build_index")
    /\ IF BuildIndexRaises(index, st.chunks)
       THEN /\ pc' = "raised"
            /\ UNCHANGED index
       ELSE /\ index' = [kind |-> "dir", chunks |-> VectorStoreFor(index, st.chunks)]
            /\ pc' = "build_index_store"
    /\ UNCHANGED <<memVars, chatVars, procs, cleanupLog, req, st, store, tempDirs, bucketObjs, uploadCalls, nReq,
                   pre, result>>

\* node_build_index from the read of docs_file to its return.
BuildIndexStore ==
    /\ pc = "build_index_store"
    /\ store' = StoreAfter(store, st.chunks)
    /\ st' = [st EXCEPT !.vector_store = TRUE]
    /\ pc' = _route_after_build(st')
    /\ UNCHANGED <<memVars, chatVars, procs, cleanupLog, req, trace, index, tempDirs, bucketObjs, uploadCalls, nReq,
                   pre, result>>

\* tempfile.mkdtemp names a directory that does not exist yet.
FreshTemp == nReq

\* node_prepare_artifact: mkdtemp, copytree of the index, copy2 of the
\* store, make_archive.  None of it is guarded: a failure of mkdtemp leaves
\* nothing, a failure of a copy or of the archive leaves the directory.
PrepareArtifact ==
    /\ pc = "prepare_artifact"
    /\ trace' = Append(trace, "prepare_artifact")
    /\ \E fault \in {"none", "mkdtemp", "copy"} :
          CASE fault = "mkdtemp" ->
                  /\ pc' = "raised"
                  /\ UNCHANGED <<st, tempDirs>>
            [] fault = "copy" \/ index.kind # "dir" \/ store.kind # "file" ->
                  /\ tempDirs' = tempDirs \cup {FreshTemp}
                  /\ pc' = "raised"
                  /\ UNCHANGED st
            [] OTHER ->
                  /\ tempDirs' = tempDirs \cup {FreshTemp}
                  /\ st' = [st EXCEPT !.artifact_path = FreshTemp,
                                      !.temp_dir = FreshTemp]
                  /\ pc' = _route_after_prepare(st')
    /\ UNCHANGED <<memVars, chatVars, procs, cleanupLog, req, index, store, bucketObjs, uploadCalls, nReq, pre, result>>

\* A test that takes only None for "no bucket".
BucketGivenNotNone(r) == r.bucket_name # "None"

\* `not bucket_name` is true of None and of the empty string.
BucketGiven(r) == r.bucket_name \notin {"None", ""}

\* A publish stage that skips the upload when boto3 cannot be imported.
OnBoto3MissingSkips(s) == [s EXCEPT !.cloud_uri = UriNone]

\* The except branch around `import boto3`.
OnBoto3Missing(s) == [s EXCEPT !.error = Err("boto3_missing", "boto3")]

\* node_upload_to_s3.
UploadToS3 ==
    /\ pc = "upload_to_s3"
    /\ trace' = Append(trace, "upload_to_s3")
    /\ IF ~BucketGiven(req)
       THEN /\ st' = [st EXCEPT !.cloud_uri = UriNone]
            /\ UNCHANGED <<bucketObjs, uploadCalls>>
       ELSE \E boto3 \in BOOLEAN, uploaded \in BOOLEAN :
              IF ~boto3
              THEN /\ st' = OnBoto3Missing(st)
                   /\ UNCHANGED <<bucketObjs, uploadCalls>>
              ELSE /\ uploadCalls' = uploadCalls + 1
                   /\ IF uploaded
                      THEN /\ bucketObjs' = bucketObjs \cup
                                  {<<req.bucket_name, Key(req.cloud_prefix)>>}
                           /\ st' = [st EXCEPT !.cloud_uri =
                                         S3Uri(req.bucket_name, Key(req.cloud_prefix))]
                      ELSE /\ st' = [st EXCEPT !.error =
                                        Err("upload_failed", req.bucket_name)]
                           /\ UNCHANGED bucketObjs
    /\ pc' = _route_after_upload(st')
    /\ UNCHANGED <<memVars, chatVars, procs, cleanupLog, req, index, store, tempDirs, nReq, pre, result>>

\* A cleanup that returns without removing anything.
CleanupKeeping ==
    /\ pc = "cleanup"
    /\ trace' = Append(trace, "cleanup")
    /\ cleanupLog' = "removed"
    /\ pc' = END
    /\ UNCHANGED <<memVars, chatVars, procs, req, st, index, store, tempDirs, bucketObjs, uploadCalls,
                   nReq, pre, result>>

\* node_cleanup, then the edge cleanup -> END.  rmtree is called with
\* ignore_errors=True: when the removal fails the directory stays and the
\* node returns as if it had been removed.
Cleanup ==
    /\ pc = "cleanup"
    /\ trace' = Append(trace, "cleanup")
    /\ IF st.temp_dir # 0 /\ st.temp_dir \in tempDirs
       THEN \E removed \in BOOLEAN :
               /\ tempDirs' = IF removed THEN tempDirs \ {st.temp_dir} ELSE tempDirs
               /\ cleanupLog' = IF removed THEN "removed" ELSE "rmtree_failed"
       ELSE /\ cleanupLog' = "skipped"
            /\ UNCHANGED tempDirs
    /\ pc' = END
    /\ UNCHANGED <<memVars, chatVars, procs, req, st, index, store, bucketObjs, uploadCalls, nReq, pre, result>>

\* app.invoke returns the final state and run_ingestion_workflow hands
\* dict(result) to its caller.
ReturnResult ==
    /\ pc = END
    /\ result' = [kind |-> "returned", state |-> st]
    /\ pc' = "returned"
    /\ UNCHANGED <<memVars, chatVars, procs, cleanupLog, req, st, trace, index, store, tempDirs, bucketObjs,
                   uploadCalls, nReq, pre>>

\* Between two calls the files at memory_file and docs_file can be damaged
\* by anything else that writes the disk (pc "idle": the disk is no longer
\* as the last call left it).
EnvDamageIndex ==
    /\ pc \in {"idle", "returned", "raised"}
    /\ index.kind = "dir"
    /\ index' = [index EXCEPT !.kind = "corrupt"]
    /\ pc' = "idle"
    /\ UNCHANGED <<memVars, chatVars, procs, cleanupLog, req, st, trace, store, tempDirs, bucketObjs,
                   uploadCalls, nReq, pre, result>>

EnvDamageStore ==
    /\ pc \in {"idle", "returned", "raised"}
    /\ store.kind = "file"
    /\ store' = [store EXCEPT !.kind = "corrupt"]
    /\ pc' = "idle"
    /\ UNCHANGED <<memVars, chatVars, procs, cleanupLog, req, st, trace, index, tempDirs, bucketObjs,
                   uploadCalls, nReq, pre, result>>

(***************************************************************************)
(* The process is killed inside a call.  What is in memory is gone, the    *)
(* files stay as they are; a later call starts from them.  save_local      *)
(* writes index.faiss and index.pkl in place and pickle.dump writes to     *)
(* docs_file opened with "wb", which empties it first: a kill inside       *)
(* either write leaves a file that holds only part of what was written.    *)
(***************************************************************************)
Running ==
    {"validate_input", "load_documents", "chunk_documents", "build_index",
     "build_index_store", "prepare_artifact", "upload_to_s3", "cleanup"}

\* Killed between two file operations.
KillProcess ==
    /\ pc \in Running
    /\ pc' = "killed"
    /\ UNCHANGED <<memVars, chatVars, procs, cleanupLog, req, st, trace, index, store, tempDirs,
                   bucketObjs, uploadCalls, nReq, pre, result>>

\* Killed inside vector_store.save_local(memory_file).
KillInSaveLocal ==
    /\ pc = "build_index"
    /\ ~BuildIndexRaises(index, st.chunks)
    /\ index' = [kind |-> "partial", chunks |-> index.chunks]
    /\ pc' = "killed"
    /\ UNCHANGED <<memVars, chatVars, procs, cleanupLog, req, st, trace, store, tempDirs,
                   bucketObjs, uploadCalls, nReq, pre, result>>

\* Killed inside pickle.dump(existing_docs + all_chunks, f).
KillInStoreDump ==
    /\ pc = "build_index_store"
    /\ store' = [kind |-> "partial", chunks |-> store.chunks]
    /\ pc' = "killed"
    /\ UNCHANGED <<memVars, chatVars, procs, cleanupLog, req, st, trace, index, tempDirs,
                   bucketObjs, uploadCalls, nReq, pre, result>>

(***************************************************************************)
(* Two concurrent calls.  node_build_index does four file operations one   *)
(* after the other (load_local, save_local, pickle.load, pickle.dump) and  *)
(* holds no lock; the operations of two processes interleave freely.       *)
(***************************************************************************)
ConInputs == {"a.txt", "b.md"}

\* What validate_input, load_documents and chunk_documents hand to
\* build_index for the readable file f.
ChunksOfInput(f) ==
    SplitDocuments(<<[source |-> f, pieces |-> FileTable[f].pieces]>>)

seqVars == <<pc, req, st, trace, tempDirs, bucketObjs, uploadCalls, nReq, pre, result,
             cleanupLog>>

\* A process is started and runs up to build_index.
ConStart ==
    \E p \in Procs, f \in ConInputs :
        /\ procs[p].pc = "idle"
        /\ procs' = [procs EXCEPT ![p] = [NoProc EXCEPT !.pc = "load_index",
                                                          !.input = f]]
        /\ UNCHANGED <<memVars, chatVars, seqVars, index, store>>

\* os.path.exists(memory_file), FAISS.load_local and add_documents, or
\* FAISS.from_documents: the vector store is now in the process's memory.
ConLoadIndex ==
    \E p \in Procs :
        /\ procs[p].pc = "load_index"
        /\ procs' = [procs EXCEPT
                        ![p].seen = VectorStoreFor(index, <<>>),
                        ![p].vs = VectorStoreFor(index, ChunksOfInput(procs[p].input)),
                        ![p].pc = "save_index"]
        /\ UNCHANGED <<memVars, chatVars, seqVars, index, store>>

\* vector_store.save_local(memory_file)
ConSaveIndex ==
    \E p \in Procs :
        /\ procs[p].pc = "save_index"
        /\ index' = [kind |-> "dir", chunks |-> procs[p].vs]
        /\ procs' = [procs EXCEPT ![p].pc = "read_store"]
        /\ UNCHANGED <<memVars, chatVars, seqVars, store>>

\* existing_docs = pickle.load(f), or [] when docs_file is absent or corrupt
ConReadStore ==
    \E p \in Procs :
        /\ procs[p].pc = "read_store"
        /\ procs' = [procs EXCEPT ![p].docs = ExistingDocs(store),
                                  ![p].pc = "write_store"]
        /\ UNCHANGED <<memVars, chatVars, seqVars, index, store>>

\* A write that reads docs_file again at the moment it writes.
StoreWrittenRereading(docs, chunks) ==
    [kind |-> "file", chunks |-> ExistingDocs(store) \o chunks]

\* pickle.dump(existing_docs + all_chunks, f)
StoreWritten(docs, chunks) == [kind |-> "file", chunks |-> docs \o chunks]

ConWriteStore ==
    \E p \in Procs :
        /\ procs[p].pc = "write_store"
        /\ store' = StoreWritten(procs[p].docs, ChunksOfInput(procs[p].input))
        /\ procs' = [procs EXCEPT ![p].pc = "built"]
        /\ UNCHANGED <<memVars, chatVars, seqVars, index>>

\* prepare_artifact, upload_to_s3 without a bucket and cleanup succeed and
\* the call returns a state without error; they write neither file.
ConFinish ==
    \E p \in Procs :
        /\ procs[p].pc = "built"
        /\ procs' = [procs EXCEPT ![p].pc = "success"]
        /\ UNCHANGED <<memVars, chatVars, seqVars, index, store>>

(***************************************************************************)
(* MEMORY STORE (memory.py)                                                *)
(***************************************************************************)
(* A file on disk: absent, a complete pickle of a snapshot (valid), the    *)
(* leading bytes of one (partial), or damaged bytes (corrupt).  A snapshot *)
(* is the chat_history list, a sequence of message identifiers.            *)
Absent == [kind |-> "absent", data |-> <<>>]
Valid(d) == [kind |-> "valid", data |-> d]
Partial == [kind |-> "partial", data |-> <<>>]
Corrupt == [kind |-> "corrupt", data |-> <<>>]

NoTmp == [kind |-> "absent", synced |-> FALSE, data |-> <<>>]

\* The snapshots found on disk by the first process: the backup is the
\* older one.
OldBackup == <<1>>
OldPrimary == <<1, 2>>
FirstMsg == Len(OldPrimary)

FileExists(f) == f.kind # "absent"

\* pickle.load followed by data.get("chat_history", []) succeeds.
Unpickles(f) == f.kind = "valid"

\* What load_memory prints when files[i] loaded.
LoadMessageNever(i) == "restored"
LoadMessage(i) == IF i = 2 THEN "restored_from_backup" ELSE "restored"

\* The body of load_memory's try block for a damaged file.
OnLoadFailureRaise(files, i, rest) == [status |-> "raised", data |-> <<>>, log |-> "none"]
OnLoadFailure(files, i, rest) == rest

\* The loop of load_memory over (filepath, backup_path), from the i-th on.
RECURSIVE LoadTry(_, _)
LoadTry(files, i) ==
    IF i > Len(files)
    THEN [status |-> "ok", data |-> <<>>, log |-> "fresh"]
    ELSE IF ~FileExists(files[i]) THEN LoadTry(files, i + 1)
    ELSE IF Unpickles(files[i])
         THEN [status |-> "ok", data |-> files[i].data, log |-> LoadMessage(i)]
         ELSE OnLoadFailure(files, i, LoadTry(files, i + 1))

load_memory(p, b) == LoadTry(<<p, b>>, 1)

NoLoad == [status |-> "none", data |-> <<>>, log |-> "none",
           primary |-> Absent, bak |-> Absent]

SaveStates == {"backup", "copying", "mkstemp", "dump", "fsync", "replace"}

MemInit ==
    /\ mpc = "start"
    /\ hist = <<>>
    /\ primary \in {Absent, Valid(OldPrimary), Corrupt}
    /\ bak \in {Absent, Valid(OldBackup), Corrupt}
    /\ tmp = NoTmp
    /\ staleTmps = 0
    /\ saveLog = [primary |-> primary, bak |-> bak, backup |-> "none",
                  killedAt |-> "none", failedAt |-> "none"]
    /\ saveData = <<>>
    /\ loaded = NoLoad
    /\ lastSave = "none"
    /\ msgCtr = FirstMsg
    /\ nCrash = 0

\* The process starts: memory = load_memory(), history_messages = its copy.
LoadMemory ==
    /\ mpc = "start"
    /\ LET r == load_memory(primary, bak) IN
          /\ loaded' = [status |-> r.status, data |-> r.data, log |-> r.log,
                        primary |-> primary, bak |-> bak]
          /\ hist' = r.data
          /\ mpc' = IF r.status = "ok" THEN "idle" ELSE "exited"
    /\ UNCHANGED <<ingestVars, chatVars, primary, bak, tmp, staleTmps, saveLog, saveData, lastSave,
                   msgCtr, nCrash>>

\* run_agent_turn: the history with the user's message and the reply added.
\* Messages are numbered; those of the turn that follows message n are
\* n + 1 (HumanMessage) and n + 2 (AIMessage).
TurnMessages(n) == <<n + 1, n + 2>>

\* A turn that hands save_memory the history as it was before the turn.
ChatTurnSavingBefore ==
    /\ mpc = "idle"
    /\ msgCtr < FirstMsg + Len(TurnMessages(0)) * MaxTurns
    /\ msgCtr' = msgCtr + Len(TurnMessages(msgCtr))
    /\ hist' = hist \o TurnMessages(msgCtr)
    /\ saveData' = hist
    /\ saveLog' = [primary |-> primary, bak |-> bak, backup |-> "none",
                   killedAt |-> "none", failedAt |-> "none"]
    /\ lastSave' = "running"
    /\ mpc' = "backup"
    /\ UNCHANGED <<ingestVars, chatVars, primary, bak, tmp, staleTmps, loaded, nCrash>>

\* A turn of the chat loop completes and save_memory(memory) is called.
ChatTurn ==
    /\ mpc = "idle"
    /\ msgCtr < FirstMsg + Len(TurnMessages(0)) * MaxTurns
    /\ msgCtr' = msgCtr + Len(TurnMessages(msgCtr))
    /\ hist' = hist \o TurnMessages(msgCtr)
    /\ saveData' = hist'
    /\ saveLog' = [primary |-> primary, bak |-> bak, backup |-> "none",
                   killedAt |-> "none", failedAt |-> "none"]
    /\ lastSave' = "running"
    /\ mpc' = "backup"
    /\ UNCHANGED <<ingestVars, chatVars, primary, bak, tmp, staleTmps, loaded, nCrash>>

\* save_memory lines 64-68.  shutil.copy2 opens the backup for writing,
\* which empties it, then copies the bytes; an OSError is swallowed.
BackupSkip ==
    /\ mpc = "backup"
    /\ ~FileExists(primary)
    /\ saveLog' = [saveLog EXCEPT !.backup = "skipped"]
    /\ mpc' = "mkstemp"
    /\ UNCHANGED <<ingestVars, chatVars, hist, primary, bak, tmp, staleTmps, saveData, loaded,
                   lastSave, msgCtr, nCrash>>

BackupOpen ==
    /\ mpc = "backup"
    /\ FileExists(primary)
    /\ bak' = Partial
    /\ mpc' = "copying"
    /\ UNCHANGED <<ingestVars, chatVars, hist, primary, tmp, staleTmps, saveLog, saveData, loaded,
                   lastSave, msgCtr, nCrash>>

\* A backup taken from the snapshot being saved instead of the file on disk.
BackupCopiedNew ==
    /\ mpc = "copying"
    /\ bak' = Valid(saveData)
    /\ saveLog' = [saveLog EXCEPT !.backup = "copied"]
    /\ mpc' = "mkstemp"
    /\ UNCHANGED <<ingestVars, chatVars, hist, primary, tmp, staleTmps, saveData, loaded, lastSave,
                   msgCtr, nCrash>>

BackupCopied ==
    /\ mpc = "copying"
    /\ bak' = primary
    /\ saveLog' = [saveLog EXCEPT !.backup = "copied"]
    /\ mpc' = "mkstemp"
    /\ UNCHANGED <<ingestVars, chatVars, hist, primary, tmp, staleTmps, saveData, loaded, lastSave,
                   msgCtr, nCrash>>

\* A copy failure that is not caught: the exception leaves save_memory.
BackupFailsAborting ==
    /\ \/ mpc = "backup" /\ FileExists(primary)
       \/ mpc = "copying"
    /\ saveLog' = [saveLog EXCEPT !.backup = "failed", !.failedAt = "backup"]
    /\ lastSave' = "raised"
    /\ mpc' = "save_raised"
    /\ UNCHANGED <<ingestVars, chatVars, hist, primary, bak, tmp, staleTmps, saveData, loaded,
                   msgCtr, nCrash>>

\* The copy raises OSError and save_memory goes on: before the backup is
\* opened (it stays as it was), while the bytes are written (it stays
\* truncated), or after them, when copy2 copies the file's metadata.
BackupFails ==
    /\ \/ mpc = "backup" /\ FileExists(primary) /\ UNCHANGED bak
       \/ mpc = "copying" /\ UNCHANGED bak
       \/ mpc = "copying" /\ bak' = primary
    /\ saveLog' = [saveLog EXCEPT !.backup = "failed"]
    /\ mpc' = "mkstemp"
    /\ UNCHANGED <<ingestVars, chatVars, hist, primary, tmp, staleTmps, saveData, loaded,
                   lastSave, msgCtr, nCrash>>

\* _atomic_write line 39: tempfile.mkstemp, outside the try block.
Mkstemp ==
    /\ mpc = "mkstemp"
    /\ \E ok \in BOOLEAN :
          IF ok
          THEN /\ tmp' = [kind |-> "empty", synced |-> FALSE, data |-> <<>>]
               /\ mpc' = "dump"
               /\ UNCHANGED <<lastSave, saveLog>>
          ELSE /\ mpc' = "save_raised"
               /\ lastSave' = "raised"
               /\ saveLog' = [saveLog EXCEPT !.failedAt = "mkstemp"]
               /\ UNCHANGED tmp
    /\ UNCHANGED <<ingestVars, chatVars, hist, primary, bak, staleTmps, saveData, loaded,
                   msgCtr, nCrash>>

\* pickle.dump starts writing, to the file mkstemp opened.
DumpBeginInPlace ==
    /\ mpc = "dump"
    /\ tmp.kind = "empty"
    /\ primary' = Partial
    /\ tmp' = [tmp EXCEPT !.kind = "partial"]
    /\ UNCHANGED <<ingestVars, chatVars, mpc, hist, bak, staleTmps, saveLog, saveData, loaded,
                   lastSave, msgCtr, nCrash>>

DumpBegin ==
    /\ mpc = "dump"
    /\ tmp.kind = "empty"
    /\ tmp' = [tmp EXCEPT !.kind = "partial"]
    /\ UNCHANGED <<ingestVars, chatVars, mpc, hist, primary, bak, staleTmps, saveLog, saveData,
                   loaded, lastSave, msgCtr, nCrash>>

\* pickle.dump returns: the whole snapshot is in the file's buffers.
DumpEnd ==
    /\ mpc = "dump"
    /\ tmp.kind = "partial"
    /\ tmp' = [kind |-> "complete", synced |-> FALSE, data |-> saveData]
    /\ mpc' = "fsync"
    /\ UNCHANGED <<ingestVars, chatVars, hist, primary, bak, staleTmps, saveLog, saveData, loaded,
                   lastSave, msgCtr, nCrash>>

\* tmp_f.flush() and os.fsync(tmp_f.fileno()).
FlushFsync ==
    /\ mpc = "fsync"
    /\ tmp' = [tmp EXCEPT !.synced = TRUE]
    /\ mpc' = "replace"
    /\ UNCHANGED <<ingestVars, chatVars, hist, primary, bak, staleTmps, saveLog, saveData, loaded,
                   lastSave, msgCtr, nCrash>>

\* os.replace(tmp_path, filepath), then _atomic_write and save_memory return.
AtomicReplace ==
    /\ mpc = "replace"
    /\ primary' = Valid(tmp.data)
    /\ tmp' = NoTmp
    /\ lastSave' = "ok"
    /\ mpc' = "saved"
    /\ UNCHANGED <<ingestVars, chatVars, hist, bak, staleTmps, saveLog, saveData, loaded, msgCtr,
                   nCrash>>

\* The except branch of _atomic_write: unlink the temporary file if it is
\* there, then re-raise.
TmpAfterCleanupKept(t) == t
TmpAfterCleanup(t) == IF t.kind # "absent" THEN NoTmp ELSE t

\* pickle.dump, flush, fsync or os.replace raises (disk full, an object that
\* does not pickle, a read-only directory).
WriteFails ==
    /\ mpc \in {"dump", "fsync", "replace"}
    /\ tmp' = TmpAfterCleanup(tmp)
    /\ lastSave' = "raised"
    /\ saveLog' = [saveLog EXCEPT !.failedAt = mpc]
    /\ mpc' = "save_raised"
    /\ UNCHANGED <<ingestVars, chatVars, hist, primary, bak, staleTmps, saveData, loaded,
                   msgCtr, nCrash>>

\* save_memory has returned or raised; the chat loop (which catches the
\* exception and prints it) goes on to read the next input.
NextPrompt ==
    /\ mpc \in {"saved", "save_raised"}
    /\ mpc' = "idle"
    /\ UNCHANGED <<ingestVars, chatVars, hist, primary, bak, tmp, staleTmps, saveLog, saveData,
                   loaded, lastSave, msgCtr, nCrash>>

\* The process is killed (or the power is lost) inside a save, and started
\* again: what it held in memory is gone, the files stay as they are.
Kill ==
    /\ mpc \in SaveStates
    /\ nCrash < MaxCrashes
    /\ nCrash' = nCrash + 1
    /\ saveLog' = [saveLog EXCEPT !.killedAt = mpc]
    /\ staleTmps' = IF tmp.kind # "absent" THEN staleTmps + 1 ELSE staleTmps
    /\ tmp' = NoTmp
    /\ hist' = <<>>
    /\ loaded' = NoLoad
    /\ lastSave' = "killed"
    /\ mpc' = "start"
    /\ UNCHANGED <<ingestVars, chatVars, primary, bak, saveData, msgCtr>>

\* While the loop waits for input, something else damages a file.
EnvDamagePrimary ==
    /\ mpc = "idle"
    /\ primary.kind = "valid"
    /\ primary' = Corrupt
    /\ UNCHANGED <<ingestVars, chatVars, mpc, hist, bak, tmp, staleTmps, saveLog, saveData, loaded,
                   lastSave, msgCtr, nCrash>>

EnvDamageBackup ==
    /\ mpc = "idle"
    /\ bak.kind = "valid"
    /\ bak' = Corrupt
    /\ UNCHANGED <<ingestVars, chatVars, mpc, hist, primary, tmp, staleTmps, saveLog, saveData,
                   loaded, lastSave, msgCtr, nCrash>>

MemNext ==
    \/ LoadMemory
    \/ ChatTurn
    \/ BackupSkip
    \/ BackupOpen
    \/ BackupCopied
    \/ BackupFails
    \/ Mkstemp
    \/ DumpBegin
    \/ DumpEnd
    \/ FlushFsync
    \/ AtomicReplace
    \/ WriteFails
    \/ NextPrompt
    \/ Kill
    \/ EnvDamagePrimary
    \/ EnvDamageBackup

(***************************************************************************)
(* The agent graph (agent_graph.py) and the system_control skill           *)
(* (skills.py).  One turn is one call of run_agent_turn: the graph starts  *)
(* at the agent node, goes to the tools node while the response carries    *)
(* tool calls, and ends at the first response without any.                 *)
(***************************************************************************)
\* str.strip().lower(), on the strings the tool and the prompt are given.
StripLower ==
    ( "shutdown" :> "shutdown" ) @@ ( " Reboot " :> "reboot" ) @@
    ( "sleep" :> "sleep" ) @@ ( "lock" :> "lock" ) @@
    ( "cancel_shutdown" :> "cancel_shutdown" ) @@ ( "hibernate" :> "hibernate" ) @@
    ( "yes" :> "yes" ) @@ ( "y" :> "y" ) @@ ( "YES" :> "yes" ) @@ ( " Y " :> "y" ) @@
    ( "no" :> "no" ) @@ ( "" :> "" ) @@ ( "yeah" :> "yeah" )

\* The action arguments the model passes to system_control.
RawActions == {"shutdown", " Reboot ", "sleep", "lock", "cancel_shutdown", "hibernate"}
\* What the user may type at the confirmation prompt.
Answers == {"yes", "y", "YES", " Y ", "no", "", "yeah"}
\* The values of platform.system().
Platforms == {"Windows", "Linux", "Darwin", "Java"}

\* The commands table of system_control for the platform os.
commands(os) ==
    CASE os = "Windows" ->
            ( "shutdown" :> "shutdown /s /t 60" ) @@
            ( "reboot" :> "shutdown /r /t 60" ) @@
            ( "sleep" :> "rundll32.exe powrprof.dll,SetSuspendState 0,1,0" ) @@
            ( "lock" :> "rundll32.exe user32.dll,LockWorkStation" ) @@
            ( "cancel_shutdown" :> "shutdown /a" )
      [] os = "Linux" ->
            ( "shutdown" :> "shutdown -h +1" ) @@
            ( "reboot" :> "shutdown -r +1" ) @@
            ( "sleep" :> "systemctl suspend" ) @@
            ( "lock" :> "loginctl lock-session" ) @@
            ( "cancel_shutdown" :> "shutdown -c" )
      [] os = "Darwin" ->
            ( "shutdown" :> "sudo shutdown -h +1" ) @@
            ( "reboot" :> "sudo shutdown -r +1" ) @@
            ( "sleep" :> "pmset sleepnow" ) @@
            ( "lock" :> "/System/Library/CoreServices/Menu\\ Extras/User.menu/Contents/Resources/CGSession -suspend" ) @@
            ( "cancel_shutdown" :> "sudo killall shutdown" )
      [] OTHER -> <<>>

Supported(os) == os \in {"Windows", "Linux", "Darwin"}
safe_actions == {"cancel_shutdown", "lock"}

\* A prompt that takes every answer for a yes.
_confirm_action_any(answer) == TRUE

\* _confirm_action: the answer, stripped and lower-cased, is "yes" or "y".
_confirm_action(answer) == StripLower[answer] \in {"yes", "y"}

Msg(role, content, calls) == [role |-> role, content |-> content, calls |-> calls]
UserMsg == Msg("human", "q", <<>>)
ToolMsg(reply) == Msg("tool", reply, <<>>)
ToolCall(tool, arg) == [tool |-> tool, arg |-> arg]

\* The histories the caller hands to run_agent_turn.
Histories == { <<>>, <<Msg("human", "q0", <<>>), Msg("ai", "r0", <<>>)>> }

\* What llm_with_tools.invoke may answer: a final text, or one tool call.
Responses ==
    { Msg("ai", c, <<>>) : c \in {"answer", "sorry"} }
    \cup { Msg("ai", "", <<ToolCall("system_control", a)>>) : a \in RawActions }
    \cup { Msg("ai", "", <<ToolCall("calculate", "1+1")>>) }

NoCall == [action |-> "", answer |-> "unasked", reply |-> "none", cmd |-> "none"]
NoTurn == [kind |-> "none", response |-> "", history |-> <<>>]

ToolStages == {"tools", "system_control", "confirm", "popen", "tool_return"}

\* A routing function that ends the turn whatever the response.
should_continue_ending(msgs) == "end"

\* should_continue: the last message decides.
should_continue(msgs) ==
    IF msgs[Len(msgs)].calls # <<>> THEN "tools" ELSE "end"

\* run_agent_turn lines 155-160: the history, the user's message and a new
\* AIMessage holding the content of the last message of the result.
UpdatedHistory(h, msgs) ==
    h \o <<UserMsg, Msg("ai", msgs[Len(msgs)].content, <<>>)>>

\* run_agent_turn is called: graph.invoke on the history and the message.
StartTurn ==
    /\ apc \in {"idle", "returned", "raised"}
    /\ \E h \in Histories, o \in Platforms :
          /\ history' = h
          /\ messages' = h \o <<UserMsg>>
          /\ os_name' = o
    /\ iters' = 0
    /\ sc' = NoCall
    /\ launched' = <<>>
    /\ turn' = NoTurn
    /\ apc' = "agent"
    /\ UNCHANGED <<ingestVars, memVars, turnLog>>

\* agent_node and the conditional edge after it.  The system prompt is put
\* in front of the list given to the model only, not into the state.  The
\* model asks for tools at most MaxToolIterations times in a turn.
AgentNode ==
    /\ apc = "agent"
    /\ \E r \in Responses :
          /\ r.calls # <<>> => iters < MaxToolIterations
          /\ messages' = Append(messages, r)
    /\ apc' = should_continue(messages')
    /\ UNCHANGED <<ingestVars, memVars, turnLog, history, iters, sc, launched, turn, os_name>>

\* llm_with_tools.invoke raises: graph.invoke and run_agent_turn raise.
AgentRaises ==
    /\ apc = "agent"
    /\ turn' = [NoTurn EXCEPT !.kind = "raised"]
    /\ apc' = "raised"
    /\ UNCHANGED <<ingestVars, memVars, turnLog, history, messages, iters, sc, launched,
                   os_name>>

\* The tools node runs the call of the last message; system_control begins
\* with action.strip().lower(), any other tool returns its result.
ToolsNode ==
    /\ apc = "tools"
    /\ iters' = iters + 1
    /\ LET call == messages[Len(messages)].calls[1] IN
          IF call.tool = "system_control"
          THEN /\ sc' = [NoCall EXCEPT !.action = StripLower[call.arg]]
               /\ apc' = "system_control"
               /\ UNCHANGED messages
          ELSE /\ sc' = NoCall
               /\ messages' = Append(messages, ToolMsg("result"))
               /\ apc' = "agent"
    /\ UNCHANGED <<ingestVars, memVars, turnLog, history, launched, turn, os_name>>

\* system_control up to the confirmation: the platform, then the action.
SystemControlLookup ==
    /\ apc = "system_control"
    /\ IF ~Supported(os_name)
       THEN sc' = [sc EXCEPT !.reply = "unsupported"] /\ apc' = "tool_return"
       ELSE IF sc.action \notin DOMAIN commands(os_name)
       THEN sc' = [sc EXCEPT !.reply = "unknown"] /\ apc' = "tool_return"
       ELSE /\ UNCHANGED sc
            /\ apc' = IF sc.action \notin safe_actions THEN "confirm" ELSE "popen"
    /\ UNCHANGED <<ingestVars, memVars, turnLog, history, messages, iters, launched, turn,
                   os_name>>

\* The prompt of _confirm_action is answered.
ConfirmAction ==
    /\ apc = "confirm"
    /\ \E a \in Answers :
          IF _confirm_action(a)
          THEN sc' = [sc EXCEPT !.answer = a] /\ apc' = "popen"
          ELSE sc' = [sc EXCEPT !.answer = a, !.reply = "cancelled"]
               /\ apc' = "tool_return"
    /\ UNCHANGED <<ingestVars, memVars, turnLog, history, messages, iters, launched, turn,
                   os_name>>

\* subprocess.Popen(commands[action], shell=True), or its exception.
Popen ==
    /\ apc = "popen"
    /\ \E ok \in BOOLEAN :
          IF ok
          THEN /\ launched' = Append(launched, commands(os_name)[sc.action])
               /\ sc' = [sc EXCEPT !.reply = "initiated",
                                   !.cmd = commands(os_name)[sc.action]]
          ELSE /\ sc' = [sc EXCEPT !.reply = "error"]
               /\ UNCHANGED launched
    /\ apc' = "tool_return"
    /\ UNCHANGED <<ingestVars, memVars, turnLog, history, messages, iters, turn, os_name>>

\* system_control returns its message; the edge tools -> agent.
ToolReturn ==
    /\ apc = "tool_return"
    /\ messages' = Append(messages, ToolMsg(sc.reply))
    /\ apc' = "agent"
    /\ UNCHANGED <<ingestVars, memVars, turnLog, history, iters, sc, launched, turn,
                   os_name>>

\* The graph reached END: run_agent_turn returns the text and the history.
ReturnTurn ==
    /\ apc = "end"
    /\ turn' = [kind |-> "returned", response |-> messages[Len(messages)].content,
                history |-> UpdatedHistory(history, messages)]
    /\ apc' = "returned"
    /\ UNCHANGED <<ingestVars, memVars, turnLog, history, messages, iters, sc, launched,
                   os_name>>

AgentNext ==
    \/ StartTurn
    \/ AgentNode
    \/ AgentRaises
    \/ ToolsNode
    \/ SystemControlLookup
    \/ ConfirmAction
    \/ Popen
    \/ ToolReturn
    \/ ReturnTurn

(***************************************************************************)
(* The main loop of Igris-Enhanced.py around one turn: run_agent_turn and  *)
(* save_memory stand in one try block, with `except KeyboardInterrupt`     *)
(* and `except Exception` branches that both go back to the prompt.        *)
(***************************************************************************)
NoTurnLog ==
    [outcome |-> "none", at |-> "none", hist |-> <<>>, primary |-> Absent,
     bak |-> Absent, lastSave |-> "none", staleTmps |-> 0]

\* The user enters a message: run_agent_turn is called.
TurnBegin ==
    /\ mpc = "idle"
    /\ msgCtr < FirstMsg + Len(TurnMessages(0)) * MaxTurns
    /\ turnLog' = [outcome |-> "running", at |-> "none", hist |-> hist,
                   primary |-> primary, bak |-> bak, lastSave |-> lastSave,
                   staleTmps |-> staleTmps]
    /\ mpc' = "agent"
    /\ UNCHANGED <<ingestVars, agentVars, hist, primary, bak, tmp, staleTmps, saveLog,
                   saveData, loaded, lastSave, msgCtr, nCrash>>

\* run_agent_turn returns, history_messages is assigned and save_memory is
\* called.
AgentReturns ==
    /\ mpc = "agent"
    /\ msgCtr' = msgCtr + Len(TurnMessages(msgCtr))
    /\ hist' = hist \o TurnMessages(msgCtr)
    /\ saveData' = hist'
    /\ saveLog' = [primary |-> primary, bak |-> bak, backup |-> "none",
                   killedAt |-> "none", failedAt |-> "none"]
    /\ lastSave' = "running"
    /\ turnLog' = [turnLog EXCEPT !.outcome = "returned"]
    /\ mpc' = "backup"
    /\ UNCHANGED <<ingestVars, agentVars, primary, bak, tmp, staleTmps, loaded, nCrash>>

\* A failing turn that keeps the user's message in the history.
TurnRaisesKeepingMessage ==
    /\ mpc = "agent"
    /\ hist' = Append(hist, TurnMessages(msgCtr)[1])
    /\ turnLog' = [turnLog EXCEPT !.outcome = "failed", !.at = "agent"]
    /\ mpc' = "idle"
    /\ UNCHANGED <<ingestVars, agentVars, primary, bak, tmp, staleTmps, saveLog,
                   saveData, loaded, lastSave, msgCtr, nCrash>>

\* run_agent_turn raises: the assignment of line 167 does not happen, the
\* except branch prints the error.
TurnRaises ==
    /\ mpc = "agent"
    /\ turnLog' = [turnLog EXCEPT !.outcome = "failed", !.at = "agent"]
    /\ mpc' = "idle"
    /\ UNCHANGED <<ingestVars, agentVars, hist, primary, bak, tmp, staleTmps, saveLog,
                   saveData, loaded, lastSave, msgCtr, nCrash>>

\* Ctrl-C inside the try block, in run_agent_turn or in save_memory: the
\* loop prints "Interrupted." and continues.  KeyboardInterrupt is not an
\* Exception, so _atomic_write does not unlink its temporary file.
TurnInterrupted ==
    /\ mpc \in {"agent"} \cup SaveStates
    /\ turnLog' = [turnLog EXCEPT !.outcome = "interrupted", !.at = mpc]
    /\ lastSave' = IF mpc \in SaveStates THEN "interrupted" ELSE lastSave
    /\ staleTmps' = IF tmp.kind # "absent" THEN staleTmps + 1 ELSE staleTmps
    /\ tmp' = NoTmp
    /\ mpc' = "idle"
    /\ UNCHANGED <<ingestVars, agentVars, hist, primary, bak, saveLog, saveData, loaded,
                   msgCtr, nCrash>>

NextChatLoop ==
    \/ LoadMemory
    \/ TurnBegin
    \/ AgentReturns
    \/ TurnRaises
    \/ TurnInterrupted
    \/ BackupSkip
    \/ BackupOpen
    \/ BackupCopied
    \/ BackupFails
    \/ Mkstemp
    \/ DumpBegin
    \/ DumpEnd
    \/ FlushFsync
    \/ AtomicReplace
    \/ WriteFails
    \/ NextPrompt

\* The chat loop and the agent graph before the first turn.
ChatAtRest ==
    /\ apc = "idle"
    /\ history = <<>>
    /\ messages = <<>>
    /\ iters = 0
    /\ sc = NoCall
    /\ launched = <<>>
    /\ turn = NoTurn
    /\ os_name = "Linux"
    /\ turnLog = NoTurnLog

(***************************************************************************)
(* The specifications.  Spec is the ingestion workflow, with the memory    *)
(* store at rest; SpecMemory is the memory store, with no ingestion call.  *)
(***************************************************************************)
MemAtRest ==
    /\ mpc = "start"
    /\ hist = <<>>
    /\ primary = Absent
    /\ bak = Absent
    /\ tmp = NoTmp
    /\ staleTmps = 0
    /\ saveLog = [primary |-> Absent, bak |-> Absent, backup |-> "none",
                  killedAt |-> "none", failedAt |-> "none"]
    /\ saveData = <<>>
    /\ loaded = NoLoad
    /\ lastSave = "none"
    /\ msgCtr = FirstMsg
    /\ nCrash = 0

IngestAtRest ==
    /\ IngestInit
    /\ index.kind = "absent"

Init == IngestInit /\ MemAtRest /\ ChatAtRest

Next ==
    \/ StartRequest
    \/ ValidateInput
    \/ LoadDocuments
    \/ ChunkDocuments
    \/ BuildIndexSave
    \/ BuildIndexStore
    \/ PrepareArtifact
    \/ UploadToS3
    \/ Cleanup
    \/ ReturnResult
    \/ EnvDamageIndex
    \/ EnvDamageStore

Spec == Init /\ [][Next]_vars

\* The ingestion workflow on an index/store pair that starts absent and that
\* nothing but the workflow touches between calls.
InitUndamaged == IngestAtRest /\ MemAtRest /\ ChatAtRest

NextUndamaged ==
    \/ StartRequest
    \/ ValidateInput
    \/ LoadDocuments
    \/ ChunkDocuments
    \/ BuildIndexSave
    \/ BuildIndexStore
    \/ PrepareArtifact
    \/ UploadToS3
    \/ Cleanup
    \/ ReturnResult

SpecUndamaged == InitUndamaged /\ [][NextUndamaged]_vars

NextChunking ==
    \/ StartChunkRequest
    \/ ValidateInput
    \/ LoadDocuments
    \/ ChunkDocuments
    \/ BuildIndexSave
    \/ BuildIndexStore
    \/ PrepareArtifact
    \/ UploadToS3
    \/ Cleanup
    \/ ReturnResult

SpecChunking == InitUndamaged /\ [][NextChunking]_vars

NextCrash ==
    \/ StartCrashRequest
    \/ ValidateInput
    \/ LoadDocuments
    \/ ChunkDocuments
    \/ BuildIndexSave
    \/ BuildIndexStore
    \/ PrepareArtifact
    \/ UploadToS3
    \/ Cleanup
    \/ ReturnResult
    \/ KillProcess
    \/ KillInSaveLocal
    \/ KillInStoreDump

SpecCrash == InitUndamaged /\ [][NextCrash]_vars

NextConcurrent ==
    \/ ConStart
    \/ ConLoadIndex
    \/ ConSaveIndex
    \/ ConReadStore
    \/ ConWriteStore
    \/ ConFinish

SpecConcurrent == InitUndamaged /\ [][NextConcurrent]_vars

NextPublish ==
    \/ StartPublishRequest
    \/ ValidateInput
    \/ LoadDocuments
    \/ ChunkDocuments
    \/ BuildIndexSave
    \/ BuildIndexStore
    \/ PrepareArtifact
    \/ UploadToS3
    \/ Cleanup
    \/ ReturnResult

SpecPublish == InitUndamaged /\ [][NextPublish]_vars

InitMemory == IngestAtRest /\ MemInit /\ ChatAtRest

SpecMemory == InitMemory /\ [][MemNext]_vars

\* The agent graph alone: turns of run_agent_turn, with the tools they call.
SpecAgent == InitUndamaged /\ [][AgentNext]_vars

\* The chat loop around the memory store: turns that return, raise or are
\* interrupted, and the save after a turn that returned.
SpecChatLoop == InitMemory /\ [][NextChatLoop]_vars

(***************************************************************************)
(* PROPERTIES OF THE INGESTION WORKFLOW                                    *)
(***************************************************************************)
Stages == <<"validate_input", "load_documents", "chunk_documents",
            "build_index", "prepare_artifact", "upload_to_s3", "cleanup">>

IsPrefix(t, u) == Len(t) <= Len(u) /\ \A i \in 1..Len(t) : t[i] = u[i]

Last(t) == t[Len(t)]

\* The node that sets each kind of error.
ErrStage(k) ==
    CASE k = "not_found" -> "validate_input"
      [] k \in {"no_documents", "read_failed"} -> "load_documents"
      [] k \in {"boto3_missing", "upload_failed"} -> "upload_to_s3"
      [] OTHER -> "none"

\* C1: the nodes of a call run in the order validate_input, load_documents,
\* chunk_documents, build_index, prepare_artifact, upload_to_s3, cleanup:
\* what has run is always a prefix of that list (so each node runs at most
\* once, right after its predecessor), a node other than the first starts
\* only while the error slot is unset, and a call that ends without error
\* has run all seven, cleanup last.
C1_PrefixAndSuccess ==
    /\ IsPrefix(trace, Stages)
    /\ (pc \in {END, "returned"} /\ st.error = NoError) => trace = Stages
    /\ (pc = "returned" /\ result.state.error = NoError) => Last(trace) = "cleanup"

C1_StepAfterPredecessor ==
    (trace' # trace /\ trace' # <<>> /\ trace # <<>>)
        => /\ st.error = NoError
           /\ pc = Stages[Len(trace) + 1]
           /\ trace' = Append(trace, pc)

C1_StageOrder == []C1_PrefixAndSuccess /\ [][C1_StepAfterPredecessor]_vars

C1_Witness ==
    /\ pc = "returned"
    /\ result.state.error = NoError
    /\ trace = Stages
    /\ nReq = 2

\* C2: once the error slot is set the call is at END or has returned: the
\* last node that ran is the one that set the error, cleanup has not run,
\* no node runs afterwards, and the returned state carries that error.
C2_ErrorEndsRun ==
    st.error # NoError =>
        /\ pc \in {END, "returned", "idle"}
        /\ trace # <<>>
        /\ Last(trace) = ErrStage(st.error.kind)
        /\ \A i \in 1..Len(trace) : trace[i] # "cleanup"
        /\ pc = "returned" => (result.kind = "returned" /\ result.state.error = st.error)

C2_NoStageAfterError ==
    st.error # NoError => (trace' = trace \/ trace' = <<>>)

C2_ShortCircuit == []C2_ErrorEndsRun /\ [][C2_NoStageAfterError]_vars

C2_Witness ==
    /\ pc = "returned"
    /\ result.state.error.kind = "upload_failed"
    /\ trace = SubSeq(Stages, 1, 6)
    /\ st.temp_dir \in tempDirs

\* C3: a call of run_ingestion_workflow never ends with an exception leaving
\* it: every failure of a node comes back as a result with the error set.
C3_NeverRaises == pc # "raised"

\* C4: a call whose input path does not exist runs validate_input only, ends
\* with the not-found error naming that path, and leaves the index, the
\* chunk store and the temporary directories as they were when it began.
C4_MissingInput ==
    (~Exists(req.input_path) /\ pc # "idle") =>
        /\ pc \in {"validate_input", END, "returned"}
        /\ Disk = pre
        /\ pc # "validate_input" =>
              /\ st.error = Err("not_found", req.input_path)
              /\ trace = <<"validate_input">>
              /\ st.vector_store = FALSE /\ st.temp_dir = 0
        /\ pc = "returned" => result.state.error = Err("not_found", req.input_path)

C4_Witness ==
    /\ pc = "returned"
    /\ ~Exists(req.input_path)
    /\ result.state.error.kind = "not_found"
    /\ index.kind = "dir"
    /\ store.kind = "file"
    /\ Disk = pre

(***************************************************************************)
(* PROPERTIES OF THE MEMORY STORE                                          *)
(***************************************************************************)
\* A save is under way, has just ended, or was cut by a kill and the new
\* process has not loaded yet: nothing but the save has touched the files.
SaveInView ==
    \/ mpc \in SaveStates \cup {"saved", "save_raised"}
    \/ mpc = "start" /\ lastSave = "killed"

\* C5: from the start of a save to its end, or to the restart after a kill
\* at any step, the primary file is the file it was when the save began or
\* the complete new snapshot, never a partial file; and the primary changes
\* only by the rename of a temporary file that is completely written and
\* fsynced.
C5_PrimaryOldOrNew ==
    SaveInView =>
        /\ primary \in {saveLog.primary, Valid(saveData)}
        /\ primary.kind # "partial"

C5_RenameAfterFsync ==
    (mpc \in SaveStates /\ primary' # primary) =>
        /\ tmp.kind = "complete"
        /\ tmp.synced
        /\ tmp.data = saveData
        /\ primary' = Valid(saveData)

C5_AtomicPrimary == []C5_PrimaryOldOrNew /\ [][C5_RenameAfterFsync]_vars

C5_Witness ==
    /\ mpc = "start"
    /\ lastSave = "killed"
    /\ saveLog.killedAt = "dump"
    /\ staleTmps = 1
    /\ saveLog.primary.kind = "valid"
    /\ primary = saveLog.primary
    /\ saveData # primary.data

\* C6: after a kill between the end of the write of the temporary file and
\* the rename, the next load does not fail; it returns the snapshot the
\* primary held before the save when there was one, and otherwise the
\* snapshot the backup held before the save or the empty snapshot.
C6_LoadAfterInterruptedSave ==
    (saveLog.killedAt \in {"fsync", "replace"} /\ loaded.status # "none") =>
        /\ loaded.status = "ok"
        /\ IF saveLog.primary.kind = "valid"
           THEN loaded.data = saveLog.primary.data
           ELSE \/ loaded.data = <<>>
                \/ saveLog.bak.kind = "valid" /\ loaded.data = saveLog.bak.data

C6_Witness ==
    /\ saveLog.killedAt = "replace"
    /\ loaded.status = "ok"
    /\ saveLog.primary.kind = "valid"
    /\ loaded.data = saveLog.primary.data
    /\ loaded.data # saveData
    /\ staleTmps = 1

\* C7: a load that finds the primary damaged and the backup intact returns
\* the backup's snapshot and prints that it restored from the backup; and
\* that message is printed exactly when the primary gave no snapshot and
\* the snapshot returned is the backup's.
C7_BackupFallback ==
    loaded.status # "none" =>
        /\ (loaded.primary.kind \in {"corrupt", "partial"} /\ loaded.bak.kind = "valid")
              => (loaded.data = loaded.bak.data /\ loaded.log = "restored_from_backup")
        /\ loaded.log = "restored_from_backup"
              <=> (loaded.primary.kind # "valid" /\ loaded.bak.kind = "valid"
                     /\ loaded.data = loaded.bak.data)

C7_Witness ==
    /\ loaded.status = "ok"
    /\ loaded.primary.kind = "corrupt"
    /\ loaded.bak.kind = "valid"
    /\ loaded.data = loaded.bak.data
    /\ loaded.log = "restored_from_backup"
    /\ Len(loaded.data) > Len(OldBackup)

\* C8: load never fails; it returns the primary's snapshot if the primary
\* deserializes, else the backup's if the backup deserializes, else the
\* empty snapshot.
C8_LoadAlwaysReturns ==
    loaded.status # "none" =>
        /\ loaded.status = "ok"
        /\ loaded.data =
              IF loaded.primary.kind = "valid" THEN loaded.primary.data
              ELSE IF loaded.bak.kind = "valid" THEN loaded.bak.data
              ELSE <<>>
        /\ mpc # "exited"

C8_Witness ==
    /\ loaded.status = "ok"
    /\ loaded.primary.kind = "corrupt"
    /\ loaded.bak.kind \in {"corrupt", "partial"}
    /\ loaded.data = <<>>
    /\ loaded.log = "fresh"
    /\ mpc = "idle"

\* C9 as stated: after every successful save made while a primary file
\* existed, .bak is the file the primary was before the save and the primary
\* holds the new snapshot.
C9_BackupIsPreviousPrimary ==
    (mpc = "saved" /\ FileExists(saveLog.primary)) =>
        /\ bak = saveLog.primary
        /\ primary = Valid(saveData)

\* C9 amended: after every successful save made while a primary file
\* existed and whose copy to .bak did not fail, .bak is the file the primary
\* was before the save and the primary holds the new snapshot.
C9_BackupUnlessCopyFailed ==
    (mpc = "saved" /\ FileExists(saveLog.primary) /\ saveLog.backup # "failed") =>
        /\ saveLog.backup = "copied"
        /\ bak = saveLog.primary
        /\ primary = Valid(saveData)

C9_Witness ==
    /\ mpc = "saved"
    /\ saveLog.primary.kind = "valid"
    /\ saveLog.backup = "copied"
    /\ bak = saveLog.primary
    /\ bak # saveLog.bak
    /\ primary = Valid(saveData)
    /\ Len(saveData) > Len(bak.data)

\* C10: a save whose write fails ends with the exception raised to the
\* caller, the primary file as it was when the save began, and no temporary
\* file of this save left in the directory.
C10_FailedSave ==
    mpc = "save_raised" =>
        /\ lastSave = "raised"
        /\ saveLog.failedAt \in {"mkstemp", "dump", "fsync", "replace"}
        /\ primary = saveLog.primary
        /\ tmp = NoTmp

C10_Witness ==
    /\ mpc = "save_raised"
    /\ saveLog.failedAt = "dump"
    /\ lastSave = "raised"
    /\ saveLog.primary.kind = "valid"
    /\ primary = saveLog.primary
    /\ saveData # primary.data
    /\ tmp = NoTmp

\* C11: a failure of the copy of the primary to .bak does not abort the
\* save: the step that fails goes on to the write of the temporary file
\* with the primary untouched, no save ends raised because of the backup,
\* and a save whose copy failed and whose write succeeded has installed the
\* new snapshot as the primary and returned normally.
C11_AfterCopyFailure ==
    /\ saveLog.failedAt # "backup"
    /\ (mpc = "saved" /\ saveLog.backup = "failed") =>
          (primary = Valid(saveData) /\ lastSave = "ok" /\ tmp = NoTmp)
    /\ (mpc = "save_raised" /\ saveLog.backup = "failed") =>
          saveLog.failedAt \in {"mkstemp", "dump", "fsync", "replace"}

C11_CopyFailureGoesOn ==
    (saveLog.backup # "failed" /\ saveLog'.backup = "failed") =>
        /\ mpc' = "mkstemp"
        /\ lastSave' = "running"
        /\ primary' = primary

C11_BackupBestEffort == []C11_AfterCopyFailure /\ [][C11_CopyFailureGoesOn]_vars

C11_Witness ==
    /\ mpc = "saved"
    /\ saveLog.backup = "failed"
    /\ saveLog.primary.kind = "valid"
    /\ primary = Valid(saveData)
    /\ primary # saveLog.primary
    /\ bak = Partial
    /\ lastSave = "ok"

\* C12 (as stated): every chunk an earlier call put in the Vector Index is
\* still in it after every later step, whatever happened to the index
\* directory in between (the index only grows).
C12_IndexOnlyGrows == [][IsPrefix(index.chunks, index'.chunks)]_vars

\* C12 (amended): the only step of a call that changes the index is the
\* save_local of build_index; when the index at the path opens, the saved
\* index is the prior index followed by all chunks of the call, and when it
\* exists but does not open the saved index holds only the chunks of the
\* call; between two openable indexes the earlier is a prefix of the later.
C12_SaveAddsToOpenableIndex ==
    (index' # index /\ pc # "idle" /\ pc' # "idle") =>
        /\ pc = "build_index" /\ pc' = "build_index_store"
        /\ index'.kind = "dir"
        /\ IF index.kind = "dir"
           THEN index'.chunks = index.chunks \o st.chunks
           ELSE index'.chunks = st.chunks
        /\ st.chunks # <<>>
C12_OpenableIndexGrows ==
    (index.kind = "dir" /\ index'.kind = "dir") => IsPrefix(index.chunks, index'.chunks)
C12_IndexGrowsWhenItOpens ==
    [][C12_SaveAddsToOpenableIndex]_vars /\ [][C12_OpenableIndexGrows]_vars
C12_Witness ==
    /\ pc = "returned" /\ result.state.error = NoError /\ nReq = 2
    /\ pre.index.kind = "dir" /\ pre.index.chunks # <<>>
    /\ index.chunks = pre.index.chunks \o st.chunks
    /\ Len(index.chunks) > Len(pre.index.chunks)

\* C13: on a pair that starts absent and that only the workflow touches,
\* the Chunk Store and the Vector Index hold the same chunks, in the same
\* number, whenever build_index is not between its two writes -- so after
\* every number of successful calls.
C13_Parity ==
    pc # "build_index_store" =>
        /\ index.chunks = store.chunks
        /\ Len(index.chunks) = Len(store.chunks)
        /\ (index.kind = "dir") = (store.kind = "file")
        /\ index.kind \in {"absent", "dir"} /\ store.kind \in {"absent", "file"}
C13_Witness ==
    /\ pc = "returned" /\ result.state.error = NoError /\ nReq = 2
    /\ pre.store.chunks # <<>> /\ st.chunks # <<>>
    /\ \A i \in 1..Len(pre.store.chunks) : pre.store.chunks[i].source # st.chunks[1].source
    /\ store.chunks = pre.store.chunks \o st.chunks
    /\ index.chunks = store.chunks

\* C14: a call that ingests what the Chunk Store already holds (the same
\* file a second time) leaves the store with the earlier list followed by
\* the same chunks again: exactly twice the length, nothing replaced and
\* nothing left out as a duplicate.
C14_SecondIngestDoubles ==
    (/\ st.vector_store
     /\ pre.store.kind = "file"
     /\ pre.store.chunks = st.chunks) =>
        /\ store.chunks = pre.store.chunks \o st.chunks
        /\ Len(store.chunks) = 2 * Len(pre.store.chunks)
C14_Witness ==
    /\ pc = "returned" /\ result.state.error = NoError /\ nReq = 2
    /\ req.input_path = "a.txt"
    /\ pre.store.kind = "file" /\ pre.store.chunks = st.chunks
    /\ Len(pre.store.chunks) = 2 /\ Len(store.chunks) = 4
    /\ store.chunks[3] = store.chunks[1] /\ store.chunks[4] = store.chunks[2]

\* The files node_load_documents may be handed for input path p.
Enumerated(p) ==
    IF IsFile(p) THEN {p}
    ELSE IF p \in Dirs
         THEN {f \in DirTable[p] : FileTable[f].suffix \in SUPPORTED_EXTENSIONS}
         ELSE {}

AfterLoad == Len(trace) >= 2 /\ trace[2] = "load_documents"

\* C15: when one of the enumerated files cannot be read, load_documents ends
\* with an error naming an enumerated file that cannot be read, the run
\* ends there (build_index is not run) and index, store and temporary
\* directories are as they were when the call began; the file named is the
\* first unreadable one in the order of enumeration, whether or not files
\* listed before it were read.
C15_ReadFailureAborts ==
    /\ pc = "load_documents" =>
            \A listing \in Listings(req.input_path) :
                LET files == _iter_paths(req.input_path, listing)
                    bad   == {i \in 1..Len(files) : FileTable[files[i]].raises}
                IN  bad # {} =>
                        node_load_documents(st, req, listing).error =
                            Err("read_failed",
                                files[CHOOSE i \in bad : \A j \in bad : i <= j])
    /\ (AfterLoad /\ \E f \in Enumerated(req.input_path) : FileTable[f].raises) =>
            st.error.kind = "read_failed"
    /\ st.error.kind = "read_failed" =>
            /\ st.error.detail \in Enumerated(req.input_path)
            /\ FileTable[st.error.detail].raises
            /\ trace = <<"validate_input", "load_documents">>
            /\ pc \in {END, "returned", "idle"}
            /\ st.raw_documents = <<>> /\ st.chunks = <<>> /\ ~st.vector_store
            /\ pc # "idle" => Disk = pre
C15_Witness ==
    /\ pc = "returned" /\ nReq = 2 /\ req.input_path = "mixed"
    /\ result.state.error = Err("read_failed", "bad.pdf")
    /\ index.kind = "dir" /\ index.chunks # <<>> /\ Disk = pre
    /\ \E f \in Enumerated(req.input_path) : ~FileTable[f].raises /\ FileTable[f].pieces # <<>>

\* A path that exists and yields no document: every file enumerated for it
\* is read without error and has only whitespace, or none is enumerated.
ZeroReadable(p) ==
    /\ Exists(p)
    /\ \A f \in Enumerated(p) : ~FileTable[f].raises /\ FileTable[f].pieces = <<>>

\* C16: a request whose path yields no readable document ends at
\* load_documents with the empty-result error naming the path, with index,
\* store and temporary directories as they were when the call began; an
\* empty-result error is reported only for such a path, and build_index is
\* never entered with an empty chunk list.
C16_NoDocuments ==
    /\ (AfterLoad /\ ZeroReadable(req.input_path)) =>
            st.error = Err("no_documents", req.input_path)
    /\ st.error.kind = "no_documents" =>
            /\ ZeroReadable(req.input_path)
            /\ trace = <<"validate_input", "load_documents">>
            /\ pc \in {END, "returned", "idle"}
            /\ ~st.vector_store
            /\ pc # "idle" => Disk = pre
    /\ pc \in {"build_index", "build_index_store"} => st.chunks # <<>>
C16_Witness ==
    /\ pc = "returned" /\ nReq = 2 /\ req.input_path = "other"
    /\ result.state.error = Err("no_documents", "other")
    /\ Disk = pre /\ index.kind = "dir" /\ store.kind = "file"
    /\ index.chunks # <<>>

\* C17: a request whose publish stage ends in an error (boto3 missing or
\* upload failed) ends with the temporary directory prepare_artifact made
\* for it still on disk, and so does a request whose packaging raised
\* after mkdtemp; no step other than cleanup removes a temporary directory,
\* and cleanup is entered only from an upload_to_s3 that left no error.
C17_LeakAfterFailure ==
    /\ st.error.kind \in {"boto3_missing", "upload_failed"} =>
            /\ st.temp_dir = FreshTemp
            /\ st.temp_dir \in tempDirs /\ st.temp_dir \notin pre.tempDirs
            /\ Last(trace) = "upload_to_s3"
            /\ pc \in {END, "returned", "idle"}
    /\ (pc = "raised" /\ Last(trace) = "prepare_artifact" /\ tempDirs # pre.tempDirs) =>
            /\ FreshTemp \in tempDirs /\ FreshTemp \notin pre.tempDirs
            /\ pre.tempDirs \subseteq tempDirs
C17_OnlyCleanupRemoves ==
    /\ ~(tempDirs \subseteq tempDirs') => (pc = "cleanup" /\ st.error = NoError)
    /\ pc' = "cleanup" => (pc = "upload_to_s3" /\ st'.error = NoError)
C17_TempDirLeaks == []C17_LeakAfterFailure /\ [][C17_OnlyCleanupRemoves]_vars
C17_Witness ==
    /\ pc = "returned" /\ nReq = 2
    /\ result.state.error = Err("boto3_missing", "boto3")
    /\ st.temp_dir \in tempDirs
    /\ Cardinality(tempDirs) = 2

Succeeded == pc \in {END, "returned"} /\ st.error = NoError

\* C18 (as stated): when a run has ended with no error, cleanup was the last
\* node run and the temporary directory of the request is gone.
C18_TempDirGone ==
    Succeeded => (Last(trace) = "cleanup" /\ st.temp_dir \notin tempDirs)

\* C18 (amended): when a run has ended with no error, all seven nodes ran
\* with cleanup last, cleanup called rmtree on the temporary directory of
\* the request, and the directory is gone exactly when that removal did
\* not fail (its errors are ignored).
C18_CleanupBeforeSuccess ==
    Succeeded =>
        /\ trace = Stages /\ Last(trace) = "cleanup"
        /\ st.temp_dir = FreshTemp
        /\ cleanupLog \in {"removed", "rmtree_failed"}
        /\ (cleanupLog = "removed") = (st.temp_dir \notin tempDirs)
C18_Witness ==
    /\ pc = "returned" /\ result.state.error = NoError
    /\ result.state.cloud_uri[1] = "s3://"
    /\ cleanupLog = "removed" /\ st.temp_dir \notin tempDirs
    /\ tempDirs = pre.tempDirs

UploadRan == Len(trace) >= 6 /\ trace[6] = "upload_to_s3"

\* C19: the publish stage of a request that names a bucket either uploads
\* (one call of upload_file) or ends with an error; it never ends without
\* error and without an upload.  When the error is the missing boto3, the
\* error names boto3, upload_file was not called, the bucket is as it was,
\* and index and store are exactly what build_index wrote in this call.
C19_AfterMissingClient ==
    /\ (UploadRan /\ BucketGiven(req)) =>
            \/ st.error = NoError /\ st.cloud_uri[1] = "s3://" /\ uploadCalls = 1
            \/ st.error = Err("upload_failed", req.bucket_name) /\ uploadCalls = 1
            \/ st.error = Err("boto3_missing", "boto3") /\ uploadCalls = 0
    /\ st.error.kind = "boto3_missing" =>
            /\ BucketGiven(req)
            /\ uploadCalls = 0 /\ st.cloud_uri = UriUnset
            /\ Last(trace) = "upload_to_s3"
            /\ st.vector_store
            /\ pc # "idle" =>
                   /\ index = [kind |-> "dir",
                               chunks |-> VectorStoreFor(pre.index, st.chunks)]
                   /\ store = StoreAfter(pre.store, st.chunks)
C19_NoUploadWithoutClient ==
    (pc = "upload_to_s3" /\ st'.error.kind = "boto3_missing") =>
        /\ bucketObjs' = bucketObjs /\ uploadCalls' = uploadCalls
        /\ index' = index /\ store' = store
C19_MissingClient == []C19_AfterMissingClient /\ [][C19_NoUploadWithoutClient]_vars
C19_Witness ==
    /\ pc = "returned" /\ nReq = 1 /\ req.bucket_name = "bkt"
    /\ result.state.error = Err("boto3_missing", "boto3")
    /\ uploadCalls = 0 /\ bucketObjs = {}
    /\ index.kind = "dir" /\ index.chunks = st.chunks /\ store.chunks = st.chunks
    /\ st.chunks # <<>>

\* C20: the publish stage of a request with no bucket (None or the empty
\* string) calls no upload, sets the location to None and leaves the error
\* slot unset; the run goes on to cleanup and ends without error after all
\* seven nodes.  The bucket contents change only in a step that calls
\* upload_file for a request that names a bucket.
C20_AfterNoBucket ==
    (UploadRan /\ req.bucket_name \in {"None", ""}) =>
        /\ uploadCalls = 0
        /\ st.cloud_uri = UriNone
        /\ st.error = NoError
        /\ pc \in {"cleanup", END, "returned", "idle"}
        /\ pc \in {END, "returned"} => trace = Stages
C20_UploadOnlyWithBucket ==
    (bucketObjs' # bucketObjs \/ uploadCalls' > uploadCalls) =>
        (/\ pc = "upload_to_s3" /\ req.bucket_name \notin {"None", ""}
         /\ uploadCalls' = uploadCalls + 1)
C20_NoBucketNoOp == []C20_AfterNoBucket /\ [][C20_UploadOnlyWithBucket]_vars
C20_Witness ==
    /\ pc = "returned" /\ req.bucket_name = ""
    /\ result.state.error = NoError /\ result.state.cloud_uri = UriNone
    /\ trace = Stages /\ uploadCalls = 0 /\ bucketObjs = {}

UploadSucceeded == UploadRan /\ st.error = NoError /\ BucketGiven(req)

\* C21 (as stated): after a successful upload the object key is the
\* request's prefix, as given, followed by "/" and the archive name, the
\* object is in the bucket under that key and the location is the bucket
\* combined with that key.
C21_KeyIsPrefixAndName ==
    UploadSucceeded =>
        LET key == req.cloud_prefix \o <<"/", ArchiveName>> IN
            /\ <<req.bucket_name, key>> \in bucketObjs
            /\ st.cloud_uri = <<"s3://", req.bucket_name, "/">> \o key

\* The prefix p without the "/" characters it ends with.
IsStrippedOf(q, p) ==
    /\ IsPrefix(q, p)
    /\ \A i \in (Len(q) + 1)..Len(p) : p[i] = "/"
    /\ (q # <<>> => q[Len(q)] # "/")

\* C21 (amended): after a successful upload the object key is the request's
\* prefix without its trailing "/" characters, followed by "/" and the
\* archive name; the object is in the bucket under that key and the
\* location is "s3://", the bucket, "/" and that key.  The step that uploads
\* adds that object and no other, so calls with the same bucket and prefix
\* write the same object.
C21_AfterUpload ==
    UploadSucceeded =>
        \E q \in {SubSeq(req.cloud_prefix, 1, n) : n \in 0..Len(req.cloud_prefix)} :
            /\ IsStrippedOf(q, req.cloud_prefix)
            /\ <<req.bucket_name, q \o <<"/", ArchiveName>>>> \in bucketObjs
            /\ st.cloud_uri = <<"s3://", req.bucket_name, "/">> \o q \o <<"/", ArchiveName>>
C21_UploadWritesKey ==
    bucketObjs' # bucketObjs =>
        \E q \in {SubSeq(req.cloud_prefix, 1, n) : n \in 0..Len(req.cloud_prefix)} :
            /\ IsStrippedOf(q, req.cloud_prefix)
            /\ bucketObjs' = bucketObjs \cup {<<req.bucket_name, q \o <<"/", ArchiveName>>>>}
C21_StableKey == []C21_AfterUpload /\ [][C21_UploadWritesKey]_vars
C21_Witness ==
    /\ pc = "returned" /\ nReq = 2 /\ result.state.error = NoError
    /\ req.cloud_prefix = <<"igris", "/">>
    /\ result.state.cloud_uri = <<"s3://", "bkt", "/", "igris", "/", "igris_artifacts.zip">>
    /\ bucketObjs = {<<"bkt", <<"igris", "/", "igris_artifacts.zip">>>>}

\* How many times node n has run in the current call.
Runs(n) == Cardinality({i \in 1..Len(trace) : trace[i] = n})

\* C22: in a call upload_file is called at most once and upload_to_s3 runs
\* at most once; when the call of upload_file fails, the error slot holds
\* the upload error, upload_to_s3 is the last node run and the run has
\* ended; a step calls upload_file only when it was not called before in
\* the call.
C22_AfterUploadFailure ==
    /\ uploadCalls <= 1
    /\ Runs("upload_to_s3") <= 1
    /\ st.error.kind = "upload_failed" =>
            /\ st.error = Err("upload_failed", req.bucket_name)
            /\ uploadCalls = 1
            /\ Last(trace) = "upload_to_s3"
            /\ st.cloud_uri = UriUnset
            /\ pc \in {END, "returned", "idle"}
C22_OneAttempt ==
    uploadCalls' > uploadCalls =>
        (uploadCalls = 0 /\ uploadCalls' = 1 /\ pc = "upload_to_s3")
C22_UploadNotRetried == []C22_AfterUploadFailure /\ [][C22_OneAttempt]_vars
C22_Witness ==
    /\ pc = "returned" /\ result.state.error = Err("upload_failed", "bkt")
    /\ uploadCalls = 1 /\ bucketObjs = {}
    /\ Runs("upload_to_s3") = 1 /\ Last(trace) = "upload_to_s3"

\* Lengths in characters: of the text made of pieces lo..hi joined by the
\* separator, of a whole text, of a chunk, and of what a chunk shares with
\* the chunk that follows it in the same document.
RECURSIVE JoinedLen(_, _, _)
JoinedLen(pieces, lo, hi) ==
    IF lo > hi THEN 0
    ELSE pieces[lo] + SepIf(lo < hi) + JoinedLen(pieces, lo + 1, hi)

TextLen(pieces) == JoinedLen(pieces, 1, Len(pieces))
ChunkLen(c) == JoinedLen(FileTable[c.source].pieces, c.lo, c.hi)
OverlapLen(c, d) == JoinedLen(FileTable[c.source].pieces, d.lo, c.hi)

\* A call that has ingested, into an index and a store that did not exist,
\* one file whose text is 2,600 characters long.
Ingested2600 ==
    /\ st.vector_store
    /\ IsFile(req.input_path)
    /\ TextLen(FileTable[req.input_path].pieces) = 2600
    /\ pre.index.kind = "absent" /\ pre.store.kind = "absent"

\* C23: ingesting one 2,600-character text file into a fresh index gives
\* exactly 4 chunks, each sharing 120 characters with the next, and the
\* Chunk Store then holds 4 chunks.
C23_FourChunks ==
    Ingested2600 =>
        /\ Len(st.chunks) = 4
        /\ \A i \in 1..(Len(st.chunks) - 1) :
               OverlapLen(st.chunks[i], st.chunks[i + 1]) = ChunkOverlap
        /\ Len(store.chunks) = 4

\* C24: every chunk is at most 800 characters long, a chunk and the next
\* chunk of the same document share 120 characters, and only the last chunk
\* of a document is shorter than 800.
C24_CharacterBased ==
    \A i \in 1..Len(st.chunks) :
        /\ ChunkLen(st.chunks[i]) <= ChunkSize
        /\ (i < Len(st.chunks) /\ st.chunks[i + 1].source = st.chunks[i].source) =>
               /\ OverlapLen(st.chunks[i], st.chunks[i + 1]) = ChunkOverlap
               /\ ChunkLen(st.chunks[i]) = ChunkSize

\* The place in raw_documents of the document read from src.
DocPos(src) == CHOOSE k \in 1..Len(st.raw_documents) : st.raw_documents[k].source = src

IsSuffix(s, t) ==
    Len(s) <= Len(t) /\ SubSeq(t, Len(t) - Len(s) + 1, Len(t)) = s

\* C25: the chunks of a call follow the order of the documents they come
\* from, and within a document the order of its text: each chunk names a
\* document of the call, chunks of an earlier document come before those of
\* a later one, the chunks of one document start at its beginning, each
\* starts and ends later than the one before without leaving text out, and
\* the last ends at its end.  Once build_index has run, the Chunk Store ends
\* with the chunks of the call in that same order, after what it held.
C25_ChunkOrder ==
    LET cs == st.chunks
        n  == Len(cs)
        first(i) == i = 1 \/ cs[i - 1].source # cs[i].source
        last(i)  == i = n \/ cs[i + 1].source # cs[i].source
    IN  /\ (n > 0 /\ st.error = NoError) =>
              /\ \A k \in 1..Len(st.raw_documents) :
                     \E i \in 1..n : cs[i].source = st.raw_documents[k].source
              /\ \A i \in 1..n :
                     /\ \E k \in 1..Len(st.raw_documents) :
                            st.raw_documents[k].source = cs[i].source
                     /\ first(i) => cs[i].lo = 1
                     /\ last(i) => cs[i].hi = Len(FileTable[cs[i].source].pieces)
                     /\ cs[i].lo <= cs[i].hi
              /\ \A i \in 1..(n - 1) :
                     /\ DocPos(cs[i].source) <= DocPos(cs[i + 1].source)
                     /\ cs[i].source = cs[i + 1].source =>
                            /\ cs[i].lo < cs[i + 1].lo
                            /\ cs[i].hi < cs[i + 1].hi
                            /\ cs[i + 1].lo <= cs[i].hi + 1
        /\ st.vector_store =>
              /\ IsSuffix(cs, store.chunks)
              /\ store.chunks = pre.store.chunks \o cs
C25_Witness ==
    /\ pc = "returned" /\ nReq = 2 /\ req.input_path = "docs"
    /\ result.state.error = NoError
    /\ Len(st.raw_documents) = 2 /\ st.raw_documents[1].source = "b.md"
    /\ Len(st.chunks) = 3
    /\ st.chunks[1].source = "b.md" /\ st.chunks[2].source = "a.txt"
    /\ st.chunks[2].hi < st.chunks[3].lo
    /\ pre.store.chunks # <<>>
    /\ store.chunks = pre.store.chunks \o st.chunks

\* C26: the step in which a turn completes adds the user's message and the
\* reply to the history and enters save_memory with that history; the loop
\* is back at its prompt only from a save that has returned or raised (or
\* after a start of the process), so while the prompt reads input no save
\* is running, and what the last save was given is the whole history.
C26_AtPrompt ==
    /\ mpc = "idle" => lastSave \in {"none", "ok", "raised", "killed"}
    /\ (mpc = "idle" /\ lastSave \in {"ok", "raised"}) =>
            /\ saveData = hist
            /\ Len(hist) >= Len(TurnMessages(0))
    /\ mpc \in SaveStates \cup {"saved", "save_raised"} => saveData = hist
    /\ mpc \in SaveStates => lastSave = "running"
C26_TurnEntersSave ==
    hist' # hist /\ mpc = "idle" =>
        /\ Len(hist') = Len(hist) + 2
        /\ SubSeq(hist', 1, Len(hist)) = hist
        /\ hist'[Len(hist') - 1] # hist'[Len(hist')]
        /\ saveData' = hist'
        /\ mpc' = "backup" /\ lastSave' = "running"
C26_PromptOnlyAfterSave ==
    (mpc # "idle" /\ mpc' = "idle") =>
        /\ mpc \in {"saved", "save_raised", "start"}
        /\ mpc \in {"saved", "save_raised"} => lastSave \in {"ok", "raised"}
BothSucceeded == \A p \in Procs : procs[p].pc = "success"
OwnChunks(p) == ChunksOfInput(procs[p].input)

\* C27: nothing keeps two calls on the same paths apart.  A call writes to
\* docs_file the list it read earlier followed by its own chunks, and to
\* memory_file the index it loaded earlier with its own chunks added,
\* whatever the other call has written since.  So when both calls have
\* succeeded and both had read the store before either wrote it, the store
\* holds what they read and the chunks of one call only; likewise for the
\* index when both had loaded it before either saved it.
C27_AfterRace ==
    BothSucceeded =>
        /\ (\A p, q \in Procs : procs[p].docs = procs[q].docs) =>
               /\ \E p \in Procs : store.chunks = procs[p].docs \o OwnChunks(p)
               /\ \E p \in Procs : Len(store.chunks) < Len(procs[p].docs) +
                                        Len(OwnChunks("A")) + Len(OwnChunks("B"))
        /\ (\A p, q \in Procs : procs[p].seen = procs[q].seen) =>
               \E p \in Procs : index.chunks = procs[p].seen \o OwnChunks(p)
C27_WritesWhatItRead ==
    /\ store' # store =>
          \E p \in Procs :
              /\ procs[p].pc = "write_store" /\ procs'[p].pc = "built"
              /\ store'.chunks = procs[p].docs \o OwnChunks(p)
    /\ index' # index =>
          \E p \in Procs :
              /\ procs[p].pc = "save_index" /\ procs'[p].pc = "read_store"
              /\ index'.chunks = procs[p].seen \o OwnChunks(p)
C27_LostUpdate == []C27_AfterRace /\ [][C27_WritesWhatItRead]_vars
C27_Witness ==
    /\ BothSucceeded
    /\ procs["A"].input = "a.txt" /\ procs["B"].input = "b.md"
    /\ store.chunks = ChunksOfInput("b.md")
    /\ \A i \in 1..Len(store.chunks) : store.chunks[i].source # "a.txt"
    /\ Len(index.chunks) = Len(ChunksOfInput("a.txt")) + Len(ChunksOfInput("b.md"))
    /\ store.kind = "file" /\ index.kind = "dir"

\* C28: when the process has been killed inside a call, the Vector Index is
\* what it was when the call began or what the call's save_local writes in
\* full, and the Chunk Store is what it was when the call began or what the
\* call's dump writes in full; neither is ever a partly written file.
C28_FilesWhole ==
    /\ index.kind # "partial" /\ store.kind # "partial"
    /\ pc = "killed" =>
          /\ index \in {pre.index,
                        [kind |-> "dir", chunks |-> VectorStoreFor(pre.index, st.chunks)]}
          /\ store \in {pre.store, StoreAfter(pre.store, st.chunks)}

\* The process was killed after save_local and before the write of docs_file.
KilledBetweenWrites ==
    /\ pc = "killed"
    /\ trace # <<>> /\ Last(trace) = "build_index"
    /\ index # pre.index /\ index.kind = "dir"
    /\ store = pre.store

\* C29: the Chunk Store is written only after the Vector Index of the same
\* call has been saved.  A kill between the two writes leaves an index that
\* ends with the chunks of the call and a store without them.  A later call
\* that finds an index that opens and a store that is absent or readable
\* adds its own chunks to both and nothing else: the index stays ahead of
\* the store by as many chunks as before.
C29_AfterBuild ==
    /\ KilledBetweenWrites =>
          /\ IsSuffix(st.chunks, index.chunks) /\ st.chunks # <<>>
          /\ index.chunks = VectorStoreFor(pre.index, st.chunks)
          /\ store.chunks = pre.store.chunks
    /\ (st.vector_store /\ pre.index.kind = "dir"
            /\ pre.store.kind \in {"absent", "file"}) =>
          /\ index.chunks = pre.index.chunks \o st.chunks
          /\ store.chunks = pre.store.chunks \o st.chunks
          /\ Len(index.chunks) - Len(store.chunks) =
                 Len(pre.index.chunks) - Len(pre.store.chunks)
          /\ pre.index.chunks # pre.store.chunks => index.chunks # store.chunks
C29_IndexBeforeStore ==
    store' # store =>
        /\ pc = "build_index_store"
        /\ Last(trace) = "build_index"
        /\ index = [kind |-> "dir", chunks |-> VectorStoreFor(pre.index, st.chunks)]
C29_NoRepair == []C29_AfterBuild /\ [][C29_IndexBeforeStore]_vars
C29_Witness ==
    /\ pc = "returned" /\ nReq = 2 /\ result.state.error = NoError
    /\ pre.index.kind = "dir" /\ pre.store.kind = "absent"
    /\ pre.index.chunks # <<>>
    /\ index.chunks = pre.index.chunks \o st.chunks
    /\ store.chunks = st.chunks
    /\ Len(index.chunks) > Len(store.chunks)

\* A call that reached build_index and found at memory_file an index
\* directory that FAISS.load_local cannot open.
FoundUnopenableIndex == pre.index.kind = "corrupt" /\ Runs("build_index") = 1

C31_StoreAfterBuild ==
    /\ (pc = "build_index_store" /\ pre.store.kind = "corrupt") =>
            ENABLED BuildIndexStore
    /\ (st.vector_store /\ pc # "idle") =>
            /\ store.kind = "file"
            /\ pre.store.kind = "corrupt" =>
                   /\ store.chunks = st.chunks
                   /\ st.error.kind \in {"none", "boto3_missing", "upload_failed"}
                   /\ pc = "raised" => Last(trace) = "prepare_artifact"
            /\ pre.store.kind = "file" => store.chunks = pre.store.chunks \o st.chunks
C31_Witness ==
    /\ pc = "returned" /\ result.state.error = NoError
    /\ pre.store.kind = "corrupt" /\ pre.store.chunks # <<>>
    /\ pre.index.kind = "dir"
    /\ store = [kind |-> "file", chunks |-> st.chunks]
    /\ index.chunks = pre.index.chunks \o st.chunks

(***************************************************************************)
(* The chat loop's `ingest` command (Igris-Enhanced.py, _handle_ingest):   *)
(* load_documents_from_directory reads the documents folder and            *)
(* build_vector_store splits what it read and saves an index at            *)
(* settings.memory_index_dir.                                              *)
(***************************************************************************)
LoaderSupported == {".pdf", ".docx", ".txt", ".csv", ".md", ".log", ".json"}

\* The file names of FileTable as sorted() orders them.
SortedNames ==
    <<"a.txt", "b.md", "bad.pdf", "blank.txt", "c.xyz", "long.txt", "notes.txt",
      "paras.txt">>

Rank(f) == CHOOSE i \in DOMAIN SortedNames : SortedNames[i] = f

\* _load_single_file: one document for a file with text; a file that cannot
\* be read is reported and gives nothing.
_load_single_file(f) ==
    IF FileTable[f].raises \/ FileTable[f].pieces = <<>>
    THEN <<>>
    ELSE <<[source |-> f, pieces |-> FileTable[f].pieces]>>

RECURSIVE LoadSorted(_, _)
LoadSorted(names, d) ==
    IF names = <<>> THEN <<>>
    ELSE LET f == Head(names)
         IN  (IF f \in DirTable[d] /\ FileTable[f].suffix \in LoaderSupported
              THEN _load_single_file(f)
              ELSE <<>>) \o LoadSorted(Tail(names), d)

\* os.walk over the folder d, the files of a folder taken in sorted order.
load_documents_from_directory(d) == LoadSorted(SortedNames, d)

(* RecursiveCharacterTextSplitter(chunk_size=800, chunk_overlap=100): a    *)
(* text whose pieces between "\n\n" are all shorter than chunk_size is cut *)
(* at "\n\n" only, each piece but the first keeps the separator in front   *)
(* of it, and the pieces are merged with an empty separator.               *)
RecursiveOverlap == 100

KeptLen(pieces, i) == pieces[i] + SepIf(i > 1)

RECURSIVE RecursiveDropHead(_, _, _, _, _)
RecursiveDropHead(pieces, lo, i, total, len) ==
    IF total > RecursiveOverlap \/ (total + len > ChunkSize /\ total > 0)
    THEN RecursiveDropHead(pieces, lo + 1, i, total - KeptLen(pieces, lo), len)
    ELSE <<lo, total>>

RECURSIVE RecursiveMerge(_, _, _, _, _)
RecursiveMerge(pieces, i, lo, total, docs) ==
    IF i > Len(pieces)
    THEN IF i > lo THEN Append(docs, <<lo, i - 1>>) ELSE docs
    ELSE LET len   == KeptLen(pieces, i)
             flush == total + len > ChunkSize /\ i > lo
             docs1 == IF flush THEN Append(docs, <<lo, i - 1>>) ELSE docs
             dh    == IF flush THEN RecursiveDropHead(pieces, lo, i, total, len)
                               ELSE <<lo, total>>
         IN  RecursiveMerge(pieces, i + 1, dh[1], dh[2] + len, docs1)

RecursiveChunksOf(doc) ==
    LET runs == RecursiveMerge(doc.pieces, 1, 1, 0, <<>>)
    IN  [k \in 1..Len(runs) |->
            [source |-> doc.source, lo |-> runs[k][1], hi |-> runs[k][2]]]

RECURSIVE RecursiveSplitDocuments(_)
RecursiveSplitDocuments(docs) ==
    IF docs = <<>> THEN <<>>
    ELSE RecursiveChunksOf(Head(docs)) \o RecursiveSplitDocuments(Tail(docs))

\* build_vector_store: FAISS.from_documents on the new chunks, then
\* save_local at memory_index_dir; docs_file is neither read nor written.
build_vector_store(docs) ==
    [kind |-> "dir", chunks |-> RecursiveSplitDocuments(docs)]

\* The user types `ingest` between two calls of the workflow; d is what the
\* documents folder holds.  save_local needs a path that is not a file.
HandleIngest ==
    /\ pc \in {"idle", "returned", "raised"}
    /\ index.kind # "file"
    /\ \E d \in Dirs :
          LET docs == load_documents_from_directory(d)
          IN  index' = IF docs # <<>> THEN build_vector_store(docs) ELSE index
    /\ UNCHANGED <<memVars, chatVars, seqVars, store, procs>>

NextIngestCommand ==
    \/ StartCrashRequest
    \/ ValidateInput
    \/ LoadDocuments
    \/ ChunkDocuments
    \/ BuildIndexSave
    \/ BuildIndexStore
    \/ PrepareArtifact
    \/ UploadToS3
    \/ Cleanup
    \/ ReturnResult
    \/ HandleIngest

\* The workflow and the `ingest` command on the same index path.
SpecIngestCommand == InitUndamaged /\ [][NextIngestCommand]_vars

ChunkSetOf(x) == { x.chunks[i] : i \in DOMAIN x.chunks }

\* C32: between operations (no build_index under way) the Vector Index and
\* the Chunk Store hold the same chunk set, because every operation that
\* writes the index (build_index of the workflow, build_vector_store of the
\* `ingest` command) mirrors the same chunks into the store in the same call.
C32_SameChunkSet ==
    pc \in {"idle", "returned", "raised"} => ChunkSetOf(index) = ChunkSetOf(store)

\* C33: for a directory request the load stage visits the supported files in
\* sorted order, so the documents it returns (and the chunks cut from them)
\* are in sorted file order whatever order the file system lists them in.
C33_SortedOrder ==
    /\ \A i, j \in DOMAIN st.raw_documents :
          i < j => Rank(st.raw_documents[i].source) < Rank(st.raw_documents[j].source)
    /\ \A i, j \in DOMAIN st.chunks :
          i < j => Rank(st.chunks[i].source) <= Rank(st.chunks[j].source)

\* artifact_base = temp_dir / "igris_artifacts": the archive is written in
\* the directory whose number artifact_path carries.
ArchiveUnder(s, d) == s.artifact_path # 0 /\ s.artifact_path = d

\* C34: the zip archive is made next to the temporary working directory, not
\* in it, so the archive path in the result record is not under temp_dir.
C34_ArchiveOutsideTemp ==
    \A s \in {st, result.state} : ~ArchiveUnder(s, s.temp_dir)

\* C37: when the primary or the backup held a valid snapshot as a save
\* began, then at every step of the save, and after a kill inside it, at
\* least one of the two files still holds a complete snapshot.
C37_OneSnapshotReadable ==
    (/\ mpc \in SaveStates \/ lastSave = "killed"
     /\ saveLog.primary.kind = "valid" \/ saveLog.bak.kind = "valid")
        => (primary.kind = "valid" \/ bak.kind = "valid")

Destructive == {"shutdown", "reboot", "sleep"}

C36_GraphLoop ==
    /\ [](/\ apc \in ToolStages =>
                /\ messages[Len(messages)].role = "ai"
                /\ messages[Len(messages)].calls # <<>>
          /\ apc \in {"end", "returned"} =>
                /\ messages[Len(messages)].role = "ai"
                /\ messages[Len(messages)].calls = <<>>
                /\ Len(messages) = Len(history) + 1 + 2 * iters + 1
          /\ turn.kind = "returned" =>
                /\ turn.response = messages[Len(messages)].content
                /\ turn.history = history \o <<UserMsg, Msg("ai", turn.response, <<>>)>>
                /\ Len(turn.history) = Len(history) + 2)
    /\ [][/\ (apc \in ToolStages /\ apc' \notin ToolStages) => apc' = "agent"
          /\ (apc' = "tools" /\ apc # "tools") => apc = "agent"
          /\ (apc' = "end" /\ apc # "end") => apc = "agent"
          /\ (apc = "agent" /\ messages' # messages) =>
                /\ messages' = Append(messages, messages'[Len(messages')])
                /\ messages'[Len(messages')].role = "ai"
                /\ apc' = IF messages'[Len(messages')].calls # <<>>
                          THEN "tools" ELSE "end"]_vars

C36_Witness ==
    /\ apc = "returned"
    /\ turn.kind = "returned"
    /\ iters = 2
    /\ history # <<>>
    /\ Len(messages) = Len(history) + 6
    /\ turn.history = history \o <<UserMsg, Msg("ai", "answer", <<>>)>>
    /\ launched # <<>>

TurnLeftNothing ==
    /\ hist = turnLog.hist
    /\ primary = turnLog.primary
    /\ bak = turnLog.bak
    /\ lastSave = turnLog.lastSave
    /\ staleTmps = turnLog.staleTmps
    /\ tmp = NoTmp

\* C38 (as stated): after a turn that failed (the agent raised, or the turn
\* was interrupted) the history, the memory file and the backup are as they
\* were before the turn and no save was made for it.
C38_FailedTurnChangesNothing ==
    (mpc = "idle" /\ turnLog.outcome \in {"failed", "interrupted"}) => TurnLeftNothing

\* C38 (amended): after a turn that failed before run_agent_turn returned
\* (the agent raised, or Ctrl-C arrived while it ran) the history, the
\* memory file and the backup are as they were before the turn and no save
\* was made for it.
C38_FailedAgentChangesNothing ==
    (mpc = "idle" /\ turnLog.outcome \in {"failed", "interrupted"}
                  /\ turnLog.at = "agent") => TurnLeftNothing

C38_Witness ==
    /\ mpc = "idle"
    /\ turnLog.outcome = "failed"
    /\ turnLog.at = "agent"
    /\ lastSave = "ok"
    /\ primary = Valid(hist)
    /\ Len(hist) = Len(loaded.data) + Len(TurnMessages(0))
    /\ bak.kind = "valid"

====
